---- MODULE Spec2Model ----
(***************************************************************************)
(* Model of the byteflight data provider: the request gateway (fetchApi),  *)
(* the error envelope (ApiError) and the per-source pipelines (OpenAIP     *)
(* aerodromes and navaids, aviationweather METAR, FAA NOTAM), in every     *)
(* variant the repository holds.                                           *)
(*                                                                         *)
(* One invocation is in flight at a time.  An invocation is started by one *)
(* of the entry-point actions, is suspended while the injected HTTP        *)
(* function (the transport) runs, and is completed by the continuation     *)
(* that runs when the transport settles.  Angles are integers in           *)
(* thousandths of a degree on input and hundredths after toFixed(2).       *)
(***************************************************************************)
EXTENDS Integers, Sequences, FiniteSets, TLC

VARIABLES
    pc,            \* "idle" | "awaiting" (suspended in fetchApi) | "done"
    call,          \* the entry point invoked and its arguments
    request,       \* what the transport was invoked with (NoRequest when not invoked)
    fetcherCalls,  \* number of invocations of the injected HTTP function
    timer,         \* "none" | "armed" | "fired" | "cleared" (setTimeout / clearTimeout)
    aborted,       \* controller.signal.aborted
    response,      \* the response the transport resolved with (NoResponse when none)
    fetchResult,   \* how the fetchApi call settled: pending, returned or thrown
    outcome,       \* how the invocation settled: pending, returned or thrown
    slots          \* the invocations in flight side by side, each with a state of its own

vars == <<pc, call, request, fetcherCalls, timer, aborted, response, fetchResult, outcome, slots>>

----------------------------------------------------------------------------
(* Bounds of the model *)

MaxItems == 2      \* items in a decoded response body
MaxCodes == 2      \* ICAO codes in a METAR-by-codes call
MaxPieces == 2     \* pieces of a text given to the text normalizer
MaxCalls == 2      \* invocations in flight side by side

----------------------------------------------------------------------------
(* Program constants *)

OPENAIP_TIMEOUT == 10000
OPENAIP_CACHE_TTL == 604800
OPENAIP_SEARCH_LIMIT == 1
OPENAIP_RADIUS_LIMIT == 200
DEFAULT_RADIUS_KM == 50
KM_TO_METERS == 1000
AIRPORT_TYPES == <<0, 1, 2, 3, 9, 5>>
AVIATIONWEATHER_TIMEOUT == 5000
AVIATIONWEATHER_CACHE_TTL == 60
FAA_TIMEOUT == 5000
FAA_CACHE_TTL == 86400
RECENT_DAYS == 30
DEFAULT_USER_AGENT == "ByteFlight/1.0"

----------------------------------------------------------------------------
(* Values *)

Pending == [kind |-> "pending"]
Returned(v) == [kind |-> "returned", value |-> v]
Thrown(e) == [kind |-> "thrown", error |-> e]

\* A string used as an error cause.
Str(parts) == [type |-> "string", text |-> parts]

\* new Error(message); a message is a tuple of its parts
PlainError(msg) == [type |-> "Error", message |-> msg]

\* The TypeError JavaScript raises on a property read of undefined or null.
TypeErrorOf(what) == [type |-> "TypeError", message |-> what]

\* new ApiError(serviceName, endpoint, requestOptions, cause)
ApiError(serviceName, endpoint, requestOptions, cause) ==
    [type |-> "ApiError", serviceName |-> serviceName, endpoint |-> endpoint,
     requestOptions |-> requestOptions, cause |-> cause]

\* Number.prototype.toFixed(2) followed by parseFloat: a value in thousandths
\* is rounded to the nearest hundredth, a tie going away from zero (toFixed
\* picks the larger n for the magnitude and restores the sign).
Round2(v) ==
    LET a == IF v < 0 THEN -v ELSE v
        n == IF a % 10 >= 5 THEN (a \div 10) + 1 ELSE a \div 10
    IN  IF v < 0 THEN -n ELSE n

\* A HeadersInit value: own is what an object spread copies from it (its own
\* enumerable properties), list is the headers it stands for.  An object
\* literal has its headers as own properties; a Headers instance has none.
HeadersObject(entries) == [own |-> entries, list |-> entries]
HeadersInstance(entries) == [own |-> [n \in {} |-> ""], list |-> entries]

\* { 'User-Agent': DEFAULT_USER_AGENT, ...b }: the default entry, then b's
\* own properties, which win on an equal key (keys are case-sensitive).
MergeHeaders(a, b) ==
    HeadersObject([n \in (DOMAIN a) \cup (DOMAIN b.own) |->
                      IF n \in DOMAIN b.own THEN b.own[n] ELSE a[n]])

NoHeaders == HeadersObject([n \in {} |-> ""])

Undefined == <<>>      \* an absent optional value; a present one is <<v>>

----------------------------------------------------------------------------
(* Request Gateway: fetchApi *)

\* if (timeout): undefined and 0 are both falsy.
Truthy(timeout) == timeout # Undefined /\ timeout[1] # 0

\* Mutant of FetchApiRequest: the abort signal is not handed to the fetcher.
FetchApiRequestNoSignal(baseUrl, options) ==
    [url     |-> baseUrl,
     method  |-> options.method,
     body    |-> options.body,
     cf      |-> options.cf,
     headers |-> MergeHeaders([n \in {"User-Agent"} |-> DEFAULT_USER_AGENT], options.headers),
     signal  |-> FALSE]

\* What fetchApi hands to the fetcher: the options without timeout, the
\* default User-Agent under the caller's headers, and the abort signal only
\* when a timeout was given.
FetchApiRequest(baseUrl, options) ==
    [url     |-> baseUrl,
     method  |-> options.method,
     body    |-> options.body,
     cf      |-> options.cf,
     headers |-> MergeHeaders([n \in {"User-Agent"} |-> DEFAULT_USER_AGENT], options.headers),
     signal  |-> Truthy(options.timeout)]

\* setTimeout(() => controller.abort(), timeout) only inside if (timeout).
FetchApiTimer(options) == IF Truthy(options.timeout) THEN "armed" ELSE "none"

\* Mutant of FetchApiSettle: a status of 400 or more is turned into a failure.
FetchApiSettleRejectsStatus(s) ==
    IF s.kind = "resolved"
    THEN IF s.response.status >= 400
         THEN Thrown(PlainError(<<"HTTP", s.response.status>>))
         ELSE Returned(s.response)
    ELSE Thrown(s.error)

\* return await fetcher(...): the fetcher's response is returned as it is,
\* whatever its status; the fetcher's rejection is rethrown as it is.
FetchApiSettle(s) ==
    IF s.kind = "resolved" THEN Returned(s.response) ELSE Thrown(s.error)

\* Mutant of ClearTimeout: the timer is left running.
LeaveTimer(t) == t

\* clearTimeout(timeoutId) in the finally block; a no-op on a timer that has
\* fired or was never set.
ClearTimeout(t) == IF t = "armed" THEN "cleared" ELSE t

Options(method, headers, body, cf, timeout) ==
    [method |-> method, headers |-> headers, body |-> body, cf |-> cf, timeout |-> timeout]

----------------------------------------------------------------------------
(* Responses *)

\* response.ok
Ok(resp) == resp.status >= 200 /\ resp.status <= 299

\* response.json() rejects (empty or malformed body)
Undecodable == [decodes |-> FALSE]
Decoded(data) == [decodes |-> TRUE, data |-> data]

JsonSyntaxError == [type |-> "SyntaxError", message |-> <<"Unexpected end of JSON input">>]

\* `HTTP ${response.status} - ${response.statusText}`
HttpStatusText(resp) == Str(<<"HTTP", resp.status, resp.statusText>>)

StatusText(status) ==
    CASE status = 200 -> "OK"
      [] status = 204 -> "No Content"
      [] status = 404 -> "Not Found"
      [] OTHER        -> "Internal Server Error"

Response(status, contentType, body) ==
    [status |-> status, statusText |-> StatusText(status),
     contentType |-> contentType, body |-> body]

\* The statuses the transport answers with.  A 204 response has no body.
FailureStatuses == {404, 500}

SeqsUpTo(S, n) == UNION {[1..k -> S] : k \in 0..n}

\* Items of a body are told apart by their name: the name is the position.
Named(items) == [i \in DOMAIN items |-> [items[i] EXCEPT !.name = i]]

\* The responses a pipeline can receive whose decoded bodies are `datas`.
ResponsesWith(datas, contentTypes) ==
    {Response(st, "application/json", Undecodable) : st \in FailureStatuses}
      \cup {Response(204, ct, Undecodable) : ct \in contentTypes}
      \cup {Response(200, ct, Undecodable) : ct \in contentTypes}
      \cup {Response(200, ct, Decoded(d)) : ct \in contentTypes, d \in datas}

----------------------------------------------------------------------------
(* Collaborators from the flight-planner package *)

\* isICAO: whether a string is a syntactically valid ICAO code.
isICAO(code) == code \in {"EHAM", "eham", "KJFK", "kjfk"}

\* normalizeICAO: the upper-case form of a code.
normalizeICAO(code) ==
    CASE code = "eham" -> "EHAM"
      [] code = "kjfk" -> "KJFK"
      [] OTHER         -> code

\* validateFrequencyType: returns a type of the enumeration, throws on any other.
FrequencyTypes == {0, 1}
validateFrequencyTypeThrows(type) == type \notin FrequencyTypes

\* capitalizeWords
capitalizeWords(name) == <<"Capitalized", name>>

----------------------------------------------------------------------------
(* OpenAIP: aerodromes (three variants) and navaids *)

API_KEY == "secret"

\* METERS_TO_FEET: 3.28084, held in hundred-thousandths.
METERS_TO_FEET == 328084

OpenAipApiOptions ==
    Options("undefined", HeadersObject([n \in {"x-openaip-api-key"} |-> API_KEY]), "undefined",
            <<OPENAIP_CACHE_TTL>>, <<OPENAIP_TIMEOUT>>)

OpenAipEndpoint(uri) == [base |-> "https://api.core.openaip.net/api/", uri |-> uri]

\* The raw airport items a response can carry (name is set by Named).
AirportItem(icaoCode, geometry, runways, frequencies) ==
    [icaoCode |-> icaoCode, name |-> 0, geometry |-> geometry, elevation |-> Undefined,
     runways |-> runways, frequencies |-> frequencies]

\* An elevation: a value in `unit` (0: metres, 1: feet) above `referenceDatum`
\* (0: ground, 1: mean sea level).
ElevationItem(value, unit, referenceDatum) ==
    <<[value |-> value, unit |-> unit, referenceDatum |-> referenceDatum]>>

\* The dimension of a runway: a length and a width, each a value in a unit.
Dimension(length, lengthUnit, width, widthUnit) ==
    <<[length |-> [value |-> length, unit |-> lengthUnit],
       width |-> [value |-> width, unit |-> widthUnit]]>>

Runway(hasSurface) ==
    [designator |-> "09L", trueHeading |-> 90, dimension |-> Undefined, hasSurface |-> hasSurface]
RunwayOf(dimension) == [Runway(TRUE) EXCEPT !.dimension = dimension]
FrequencyItem(type) == [type |-> type, name |-> "", value |-> 118]

AirportItems ==
    { [AirportItem("eham", TRUE, <<<<Runway(TRUE)>>>>, <<<<FrequencyItem(0)>>>>)
          EXCEPT !.elevation = ElevationItem(-3, 0, 1)],
      [AirportItem("EHAM", TRUE, Undefined, Undefined) EXCEPT !.elevation = ElevationItem(13, 1, 1)],
      [AirportItem("KJFK", TRUE, <<<<RunwayOf(Dimension(3800, 0, 148, 1))>>>>, Undefined)
          EXCEPT !.elevation = ElevationItem(4, 0, 0)],
      [AirportItem("kjfk", TRUE, <<<<RunwayOf(Dimension(12000, 1, 45, 0)), Runway(TRUE)>>>>, Undefined)
          EXCEPT !.elevation = ElevationItem(0, 0, 1)],
      AirportItem("", TRUE, <<<<Runway(TRUE)>>>>, Undefined),
      AirportItem("XX", TRUE, Undefined, <<<<FrequencyItem(1)>>>>),
      AirportItem("KJFK", TRUE, <<<<Runway(FALSE)>>>>, Undefined),
      AirportItem("kjfk", TRUE, Undefined, <<<<FrequencyItem(99)>>>>),
      AirportItem("EHAM", FALSE, Undefined, Undefined) }

\* Decoded OpenAIP bodies: null, an object without items, an object with items.
NullData == [isNull |-> TRUE]
ItemsData(items) == [isNull |-> FALSE, items |-> items]

OpenAipDatas(kinds) ==
    {NullData, ItemsData(Undefined)}
      \cup {ItemsData(<<Named(items)>>) : items \in SeqsUpTo(kinds, MaxItems)}

AerodromeResponses == ResponsesWith(OpenAipDatas(AirportItems), {"application/json"})

\* !data || !data.items || data.items.length === 0
NoItems(data) ==
    \/ data.isNull
    \/ data.items = Undefined
    \/ Len(data.items[1]) = 0

\* Mutant of AerodromeKept: the code is only tested for presence.
AerodromeKeptWithAnyCode(aerodrome) == aerodrome.icaoCode # ""

\* .filter((aerodrome) => aerodrome.icaoCode && isICAO(aerodrome.icaoCode))
AerodromeKept(aerodrome) == aerodrome.icaoCode # "" /\ isICAO(aerodrome.icaoCode)

\* What mapping one kept item throws, in evaluation order: the runways, the
\* frequencies, then the record literal.  Undefined when it throws nothing.
AerodromeMapError(aerodrome) ==
    IF aerodrome.runways # Undefined
         /\ \E i \in DOMAIN aerodrome.runways[1] : ~aerodrome.runways[1][i].hasSurface
    THEN <<TypeErrorOf(<<"runway.surface is undefined">>)>>
    ELSE IF aerodrome.frequencies # Undefined
              /\ \E i \in DOMAIN aerodrome.frequencies[1] :
                    validateFrequencyTypeThrows(aerodrome.frequencies[1][i].type)
    THEN <<PlainError(<<"Invalid frequency type">>)>>
    ELSE IF ~aerodrome.geometry
    THEN <<TypeErrorOf(<<"aerodrome.geometry is undefined">>)>>
    ELSE Undefined

\* dimension?.length.unit === 0 ? dimension?.length.value : undefined
InMetres(measure) == IF measure.unit = 0 THEN <<measure.value>> ELSE Undefined

MapRunway(runway) ==
    [designator |-> runway.designator, heading |-> runway.trueHeading,
     length |-> IF runway.dimension = Undefined THEN Undefined
                ELSE InMetres(runway.dimension[1].length),
     width |-> IF runway.dimension = Undefined THEN Undefined
               ELSE InMetres(runway.dimension[1].width),
     surface |-> "composite"]

MapFrequency(frequency) ==
    [type |-> frequency.type, name |-> frequency.name, value |-> frequency.value]

\* Mutant of ElevationInFeet: the reference datum is not looked at.
ElevationOfAnyDatum(aerodrome) ==
    IF aerodrome.elevation # Undefined /\ aerodrome.elevation[1].unit = 0
    THEN <<aerodrome.elevation[1].value * METERS_TO_FEET>>
    ELSE Undefined

\* (elevation && elevation.unit === 0 && elevation.referenceDatum === 1)
\*     ? elevation.value * METERS_TO_FEET : undefined
\* in hundred-thousandths of a foot.
ElevationInFeet(aerodrome) ==
    IF aerodrome.elevation # Undefined /\ aerodrome.elevation[1].unit = 0
         /\ aerodrome.elevation[1].referenceDatum = 1
    THEN <<aerodrome.elevation[1].value * METERS_TO_FEET>>
    ELSE Undefined

\* The Aerodrome built from one kept item.
MapAerodrome(aerodrome) ==
    [icao |-> normalizeICAO(aerodrome.icaoCode),
     name |-> capitalizeWords(aerodrome.name),
     elevation |-> ElevationInFeet(aerodrome),
     runways |-> IF aerodrome.runways = Undefined THEN <<>>
                 ELSE [i \in DOMAIN aerodrome.runways[1] |-> MapRunway(aerodrome.runways[1][i])],
     frequencies |-> IF aerodrome.frequencies = Undefined THEN <<>>
                     ELSE [i \in DOMAIN aerodrome.frequencies[1] |->
                              MapFrequency(aerodrome.frequencies[1][i])],
     waypointVariant |-> "Aerodrome"]

\* Mutant of MapAll: the records come out last item first.
MapAllReversed(errors, records) ==
    LET bad == {i \in DOMAIN errors : errors[i] # Undefined}
    IN  IF bad # {}
        THEN Thrown(errors[CHOOSE i \in bad : \A j \in bad : i <= j][1])
        ELSE Returned([i \in DOMAIN records |-> records[Len(records) + 1 - i]])

\* items.map(f) where f may throw: the first throw ends the call.
\* `errors` holds what f throws on each item (Undefined: nothing).
MapAll(errors, records) ==
    LET bad == {i \in DOMAIN errors : errors[i] # Undefined}
    IN  IF bad # {}
        THEN Thrown(errors[CHOOSE i \in bad : \A j \in bad : i <= j][1])
        ELSE Returned(records)

\* data.items.filter(...).map(...) of the aerodrome variants
MapAerodromes(items) ==
    LET kept == SelectSeq(items, AerodromeKept)
    IN  MapAll([i \in DOMAIN kept |-> AerodromeMapError(kept[i])],
               [i \in DOMAIN kept |-> MapAerodrome(kept[i])])

\* catch (error) { throw new ApiError(service, endpoint, apiOptions, error) }
Catch(result, serviceName, endpoint, apiOptions) ==
    IF result.kind = "thrown"
    THEN Thrown(ApiError(serviceName, endpoint, apiOptions, result.error))
    ELSE result

\* aerodrome baseApi (current variant), from the settled fetchApi call on:
\* nothing is caught, a non-success status throws an ApiError.
AerodromeBaseApi(uri, fetched) ==
    IF fetched.kind = "thrown" THEN fetched
    ELSE LET resp == fetched.value IN
         IF ~Ok(resp)
         THEN Thrown(ApiError("OpenAIP", OpenAipEndpoint(uri), OpenAipApiOptions,
                              HttpStatusText(resp)))
         ELSE IF ~resp.body.decodes THEN Thrown(JsonSyntaxError)
         ELSE IF NoItems(resp.body.data) THEN Returned(<<>>)
         ELSE MapAerodromes(resp.body.data.items[1])

\* openaip.ts baseApi and OpenAip.baseApi: the same steps inside try/catch, a
\* non-success status throwing a plain Error.
OpenaipBaseApi(uri, fetched) ==
    Catch(IF fetched.kind = "thrown" THEN fetched
          ELSE LET resp == fetched.value IN
               IF ~Ok(resp)
               THEN Thrown(PlainError(<<"OpenAIP API request failed with status", resp.status>>))
               ELSE IF ~resp.body.decodes THEN Thrown(JsonSyntaxError)
               ELSE IF NoItems(resp.body.data) THEN Returned(<<>>)
               ELSE MapAerodromes(resp.body.data.items[1]),
          "OpenAIP API", OpenAipEndpoint(uri), OpenAipApiOptions)

\* Navaid items (name is set by Named; hasName tells whether the item has one).
NavaidItem(identifier, hasName, geometry, elevation, frequency) ==
    [identifier |-> identifier, name |-> 0, hasName |-> hasName, geometry |-> geometry,
     elevation |-> elevation, frequency |-> frequency]

NavaidItems ==
    { NavaidItem("SPY", TRUE, TRUE, <<12>>, <<113>>),
      NavaidItem("PAM", FALSE, TRUE, Undefined, Undefined),
      NavaidItem("", TRUE, TRUE, <<0>>, <<117>>),
      NavaidItem("RTM", TRUE, FALSE, <<5>>, Undefined) }

NavaidResponses == ResponsesWith(OpenAipDatas(NavaidItems), {"application/json"})

\* .filter((navaid) => navaid.identifier)
NavaidKept(navaid) == navaid.identifier # ""

\* navaid.geometry.coordinates on an item without geometry
NavaidMapError(navaid) ==
    IF ~navaid.geometry THEN <<TypeErrorOf(<<"navaid.geometry is undefined">>)>> ELSE Undefined

MapNavaid(navaid) ==
    [icao |-> navaid.identifier,
     name |-> IF navaid.hasName THEN <<"name", navaid.name>>
              ELSE <<"identifier", navaid.identifier>>,    \* navaid.name || navaid.identifier
     elevation |-> IF navaid.elevation # Undefined /\ navaid.elevation[1] # 0
                   THEN navaid.elevation[1] ELSE 0,
     runways |-> <<>>,
     frequencies |-> IF navaid.frequency # Undefined
                     THEN <<[type |-> "NAV", frequency |-> navaid.frequency[1]]>>
                     ELSE <<>>]

MapNavaids(items) ==
    LET kept == SelectSeq(items, NavaidKept)
    IN  MapAll([i \in DOMAIN kept |-> NavaidMapError(kept[i])],
               [i \in DOMAIN kept |-> MapNavaid(kept[i])])

\* navaid baseApi, from the settled fetchApi call on: nothing is caught.
NavaidBaseApi(uri, fetched) ==
    IF fetched.kind = "thrown" THEN fetched
    ELSE LET resp == fetched.value IN
         IF ~Ok(resp)
         THEN Thrown(ApiError("OpenAIP", OpenAipEndpoint(uri), OpenAipApiOptions,
                              HttpStatusText(resp)))
         ELSE IF ~resp.body.decodes THEN Thrown(JsonSyntaxError)
         ELSE IF NoItems(resp.body.data) THEN Returned(<<>>)
         ELSE MapNavaids(resp.body.data.items[1])

----------------------------------------------------------------------------
(* aviationweather: METAR (three variants) *)

MetarApiOptions ==
    Options("undefined", NoHeaders, "undefined",
            <<AVIATIONWEATHER_CACHE_TTL>>, <<AVIATIONWEATHER_TIMEOUT>>)

MetarEndpoint(uri) == [base |-> "https://aviationweather.gov/api/data/", uri |-> uri]

\* A raw METAR item.  normalizeICAO and createMetarFromString belong to the
\* flight-planner package: `collaborator` tells whether they accept the item
\* ("accepts") or throw on it ("throws"); they accept every well-formed item.
MetarItem(icaoId, rawOb, collaborator) ==
    [icaoId |-> icaoId, rawOb |-> rawOb, rawTaf |-> 0, lon |-> 4, lat |-> 52,
     collaborator |-> collaborator]

MetarItems ==
    { MetarItem("eham", "METAR EHAM", "accepts"),
      MetarItem("", "METAR EHAM", "accepts"),
      MetarItem("", "METAR EHAM", "throws"),
      MetarItem("KJFK", "garbage", "accepts"),
      MetarItem("KJFK", "garbage", "throws") }

\* METAR items of a body are told apart by their raw forecast text.
Forecasts(items) == [i \in DOMAIN items |-> [items[i] EXCEPT !.rawTaf = i]]

\* Decoded METAR bodies: null or an array.
MetarDatas ==
    {NullData} \cup {ItemsData(<<Forecasts(items)>>) : items \in SeqsUpTo(MetarItems, MaxItems)}

\* !data || data.length === 0
MetarEmpty(data) == data.isNull \/ Len(data.items[1]) = 0

MetarResponses == ResponsesWith(MetarDatas, {"application/json"})

MetarMapError(metar) ==
    IF metar.collaborator = "throws"
    THEN <<PlainError(<<"flight-planner rejected the item">>)>>
    ELSE Undefined

MapMetar(metar) ==
    [station |-> normalizeICAO(metar.icaoId),
     metar   |-> <<"Metar", metar.rawOb>>,
     tafRaw  |-> metar.rawTaf,
     coords  |-> <<metar.lon, metar.lat>>]

\* data.map(...)
MapMetars(items) ==
    MapAll([i \in DOMAIN items |-> MetarMapError(items[i])],
           [i \in DOMAIN items |-> MapMetar(items[i])])

\* Mutant of MetarBaseApi: a 204 response is an empty success.
MetarBaseApiEmptyOnNoContent(uri, fetched) ==
    Catch(IF fetched.kind = "thrown" THEN fetched
          ELSE LET resp == fetched.value IN
               IF resp.status = 204 THEN Returned(<<>>)
               ELSE IF ~Ok(resp)
               THEN Thrown(ApiError("METAR", MetarEndpoint(uri), MetarApiOptions,
                                    HttpStatusText(resp)))
               ELSE IF ~resp.body.decodes THEN Thrown(JsonSyntaxError)
               ELSE IF MetarEmpty(resp.body.data) THEN Returned(<<>>)
               ELSE MapMetars(resp.body.data.items[1]),
          "METAR", MetarEndpoint(uri), MetarApiOptions)

\* aviationweather baseApi, first variant: 204 and non-success statuses throw
\* an ApiError inside the try block, which the catch wraps in another.
MetarBaseApi(uri, fetched) ==
    Catch(IF fetched.kind = "thrown" THEN fetched
          ELSE LET resp == fetched.value IN
               IF resp.status = 204
               THEN Thrown(ApiError("METAR", MetarEndpoint(uri), MetarApiOptions,
                                    Str(<<"No Content">>)))
               ELSE IF ~Ok(resp)
               THEN Thrown(ApiError("METAR", MetarEndpoint(uri), MetarApiOptions,
                                    HttpStatusText(resp)))
               ELSE IF ~resp.body.decodes THEN Thrown(JsonSyntaxError)
               ELSE IF MetarEmpty(resp.body.data) THEN Returned(<<>>)
               ELSE MapMetars(resp.body.data.items[1]),
          "METAR", MetarEndpoint(uri), MetarApiOptions)

\* aviationweather baseApi, second variant, and Metar.baseApi: no 204 test, a
\* non-success status throws a plain Error; everything is caught and wrapped.
MetarBaseApi2(uri, fetched) ==
    Catch(IF fetched.kind = "thrown" THEN fetched
          ELSE LET resp == fetched.value IN
               IF ~Ok(resp)
               THEN Thrown(PlainError(<<"METAR API request failed with status", resp.status>>))
               ELSE IF ~resp.body.decodes THEN Thrown(JsonSyntaxError)
               ELSE IF MetarEmpty(resp.body.data) THEN Returned(<<>>)
               ELSE MapMetars(resp.body.data.items[1]),
          "METAR API", MetarEndpoint(uri), MetarApiOptions)

\* getRecentDateParam: a date is a number of days relative to now.  What it
\* throws (Undefined: nothing).
RecentDateError(date) ==
    IF date # Undefined /\ (date[1] < -RECENT_DAYS \/ date[1] > 0)
    THEN <<PlainError(<<"Date must be within the last 30 days">>)>>
    ELSE Undefined

\* Mutant of BboxReversed: the box is rounded but left in its input order.
BboxKeptOrder(bbox) == <<Round2(bbox[1]), Round2(bbox[2]), Round2(bbox[3]), Round2(bbox[4])>>

\* [bbox[1], bbox[0], bbox[3], bbox[2]].map(toFixed(2)): south, west, north, east
BboxReversed(bbox) == <<Round2(bbox[2]), Round2(bbox[1]), Round2(bbox[4]), Round2(bbox[3])>>

----------------------------------------------------------------------------
(* Scalar parsers of the NOTAM pipeline.  A string is the tuple of its     *)
(* characters; an absent (undefined) string and the empty string are both  *)
(* the empty tuple, which is what the parsers' falsy tests make of them.   *)

DigitChars == <<"0", "1", "2", "3", "4", "5", "6", "7", "8", "9">>

\* \d
IsDigit(c) == \E i \in 1..10 : DigitChars[i] = c

DigitValue(c) == (CHOOSE i \in 1..10 : DigitChars[i] = c) - 1

\* \s, for the white space the model's strings use
WhiteSpace == {" ", "\t", "\n", "\r"}

\* parseInt(digits, 10) of a string of digits
RECURSIVE ParseInt(_)
ParseInt(digits) ==
    IF digits = <<>> THEN 0
    ELSE 10 * ParseInt(SubSeq(digits, 1, Len(digits) - 1)) + DigitValue(digits[Len(digits)])

\* dateString.match(/^(\d{2})\/(\d{2})\/(\d{4})\s+(\d{4})$/)
DateMatch(s) ==
    /\ Len(s) >= 15
    /\ \A i \in {1, 2, 4, 5, 7, 8, 9, 10} : IsDigit(s[i])
    /\ s[3] = "/" /\ s[6] = "/"
    /\ \A i \in 11..(Len(s) - 4) : s[i] \in WhiteSpace
    /\ \A i \in (Len(s) - 3)..Len(s) : IsDigit(s[i])

\* Days from 1970-01-01 to the first day of month (1..12) of year in the
\* proleptic Gregorian calendar (MakeDay of ECMAScript).
DaysFromCivil(year, month) ==
    LET y   == IF month <= 2 THEN year - 1 ELSE year
        era == y \div 400
        yoe == y - era * 400
        mp  == (month + 9) % 12
        doy == (153 * mp + 2) \div 5
        doe == yoe * 365 + yoe \div 4 - yoe \div 100 + doy
    IN  era * 146097 + doe - 719468

\* The time value, in minutes, of the date fields: a year from 0 to 99 is
\* taken as 1900 + year, and a month, day, hour or minute out of its range
\* carries over into the next unit.
MakeDate(year, monthIndex, day, hours, minutes) ==
    LET yr == IF 0 <= year /\ year <= 99 THEN 1900 + year ELSE year
        ym == yr + monthIndex \div 12
        mn == monthIndex % 12
    IN  (DaysFromCivil(ym, mn + 1) + day - 1) * 1440 + hours * 60 + minutes

\* Date.UTC(year, monthIndex, day, hours, minutes), in minutes since the epoch
DateUTC(year, monthIndex, day, hours, minutes) ==
    MakeDate(year, monthIndex, day, hours, minutes)

\* new Date(year, monthIndex, day, hours, minutes): the fields are local
\* time; offset is the local zone's minutes east of UTC at that time.
DateLocal(year, monthIndex, day, hours, minutes, offset) ==
    MakeDate(year, monthIndex, day, hours, minutes) - offset

\* parseNotamDate of the current variant: Undefined, or <<minutes since the epoch>>
parseNotamDate(dateString) ==
    IF dateString = <<>> THEN Undefined
    ELSE IF ~DateMatch(dateString) THEN Undefined
    ELSE LET time == SubSeq(dateString, Len(dateString) - 3, Len(dateString))
         IN  <<DateUTC(ParseInt(SubSeq(dateString, 7, 10)),
                       ParseInt(SubSeq(dateString, 1, 2)) - 1,
                       ParseInt(SubSeq(dateString, 4, 5)),
                       ParseInt(SubSeq(time, 1, 2)),
                       ParseInt(SubSeq(time, 3, 4)))>>

\* parseNotamDate of faa-notam.ts: the fields are taken as local time.
\* The local zone of the runtime, in minutes east of UTC
LocalOffsets == {-300, 0, 120}

parseNotamDateOld(dateString, offset) ==
    IF dateString = <<>> THEN Undefined
    ELSE IF ~DateMatch(dateString) THEN Undefined
    ELSE LET time == SubSeq(dateString, Len(dateString) - 3, Len(dateString))
         IN  <<DateLocal(ParseInt(SubSeq(dateString, 7, 10)),
                         ParseInt(SubSeq(dateString, 1, 2)) - 1,
                         ParseInt(SubSeq(dateString, 4, 5)),
                         ParseInt(SubSeq(time, 1, 2)),
                         ParseInt(SubSeq(time, 3, 4)),
                         offset)>>

\* The part of a number token after its sign matches \d*\.?\d+ : digits
\* with at most one dot, the last character a digit.
UnsignedMatch(r) ==
    /\ r # <<>>
    /\ IsDigit(r[Len(r)])
    /\ \A i \in DOMAIN r : IsDigit(r[i]) \/ r[i] = "."
    /\ \A i, j \in DOMAIN r : (r[i] = "." /\ r[j] = ".") => i = j

\* [+-]?\d*\.?\d+
NumberMatch(t) ==
    /\ t # <<>>
    /\ IF t[1] \in {"+", "-"} THEN UnsignedMatch(Tail(t)) ELSE UnsignedMatch(t)

RECURSIVE Pow10(_)
Pow10(n) == IF n = 0 THEN 1 ELSE 10 * Pow10(n - 1)

\* A decimal number num / 10^scale without trailing zeros in its fraction.
RECURSIVE Decimal(_, _)
Decimal(num, scale) ==
    IF scale > 0 /\ num % 10 = 0 THEN Decimal(num \div 10, scale - 1)
    ELSE [num |-> num, scale |-> scale]

\* parseFloat of a token that NumberMatch accepts
ParseFloat(t) ==
    LET signed   == t[1] \in {"+", "-"}
        r        == IF signed THEN Tail(t) ELSE t
        dots     == {i \in DOMAIN r : r[i] = "."}
        dot      == IF dots = {} THEN Len(r) + 1 ELSE CHOOSE i \in dots : TRUE
        digits   == SubSeq(r, 1, dot - 1) \o SubSeq(r, dot + 1, Len(r))
        fraction == IF dots = {} THEN 0 ELSE Len(r) - dot
        value    == ParseInt(digits)
    IN  Decimal(IF t[1] = "-" THEN 0 - value ELSE value, fraction)

\* x < n and x > n for a decimal x and an integer n
DecimalLess(x, n) == x.num < n * Pow10(x.scale)
DecimalGreater(x, n) == x.num > n * Pow10(x.scale)

\* pointString.match(/^\[([+-]?\d*\.?\d+),([+-]?\d*\.?\d+)\]$/): the set of
\* captures <<longitude, latitude>>, empty when there is no match
ArrayMatch(s) ==
    IF Len(s) < 2 \/ s[1] # "[" \/ s[Len(s)] # "]" THEN {}
    ELSE {<<SubSeq(s, 2, k - 1), SubSeq(s, k + 1, Len(s) - 1)>> : k \in
            {k \in 2..(Len(s) - 1) :
                /\ s[k] = ","
                /\ NumberMatch(SubSeq(s, 2, k - 1))
                /\ NumberMatch(SubSeq(s, k + 1, Len(s) - 1))}}

\* pointString.match(/^POINT\(([+-]?\d*\.?\d+)\s+([+-]?\d*\.?\d+)\)$/)
WktMatch(s) ==
    IF Len(s) < 7 \/ SubSeq(s, 1, 6) # <<"P", "O", "I", "N", "T", "(">> \/ s[Len(s)] # ")"
    THEN {}
    ELSE {<<SubSeq(s, 7, ij[1]), SubSeq(s, ij[2], Len(s) - 1)>> : ij \in
            {ij \in (7..(Len(s) - 1)) \X (7..(Len(s) - 1)) :
                /\ ij[1] + 1 < ij[2]
                /\ \A k \in (ij[1] + 1)..(ij[2] - 1) : s[k] \in WhiteSpace
                /\ NumberMatch(SubSeq(s, 7, ij[1]))
                /\ NumberMatch(SubSeq(s, ij[2], Len(s) - 1))}}

\* Mutant of parsePoint: the WKT form is read as latitude, longitude.
parsePointWktSwapped(pointString) ==
    IF pointString = <<>> THEN Undefined
    ELSE IF ArrayMatch(pointString) # {}
    THEN LET m   == CHOOSE m \in ArrayMatch(pointString) : TRUE
             lon == ParseFloat(m[1])
             lat == ParseFloat(m[2])
         IN  IF DecimalLess(lat, -90) \/ DecimalGreater(lat, 90)
                  \/ DecimalLess(lon, -180) \/ DecimalGreater(lon, 180)
             THEN Undefined
             ELSE <<[latitude |-> lat, longitude |-> lon]>>
    ELSE IF WktMatch(pointString) # {}
    THEN LET m   == CHOOSE m \in WktMatch(pointString) : TRUE
             lon == ParseFloat(m[2])
             lat == ParseFloat(m[1])
         IN  IF DecimalLess(lat, -90) \/ DecimalGreater(lat, 90)
                  \/ DecimalLess(lon, -180) \/ DecimalGreater(lon, 180)
             THEN Undefined
             ELSE <<[latitude |-> lat, longitude |-> lon]>>
    ELSE Undefined

\* parsePoint: Undefined, or <<[latitude, longitude]>>; the array form is
\* tried first, then the WKT form, each with its own range validation.
parsePoint(pointString) ==
    IF pointString = <<>> THEN Undefined
    ELSE IF ArrayMatch(pointString) # {}
    THEN LET m   == CHOOSE m \in ArrayMatch(pointString) : TRUE
             lon == ParseFloat(m[1])
             lat == ParseFloat(m[2])
         IN  IF DecimalLess(lat, -90) \/ DecimalGreater(lat, 90)
                  \/ DecimalLess(lon, -180) \/ DecimalGreater(lon, 180)
             THEN Undefined
             ELSE <<[latitude |-> lat, longitude |-> lon]>>
    ELSE IF WktMatch(pointString) # {}
    THEN LET m   == CHOOSE m \in WktMatch(pointString) : TRUE
             lon == ParseFloat(m[1])
             lat == ParseFloat(m[2])
         IN  IF DecimalLess(lat, -90) \/ DecimalGreater(lat, 90)
                  \/ DecimalLess(lon, -180) \/ DecimalGreater(lon, 180)
             THEN Undefined
             ELSE <<[latitude |-> lat, longitude |-> lon]>>
    ELSE Undefined

----------------------------------------------------------------------------
(* Text normalizer of the NOTAM pipeline: parseText *)

\* The abbreviations of the current variant, in the order Object.entries
\* gives them (insertion order).
Abbreviations ==
    << [key |-> <<"A", "D">>, expansion |-> <<"A", "E", "R", "O", "D", "R", "O", "M", "E">>],
       [key |-> <<"A", "F", "T", "N">>, expansion |-> <<"A", "E", "R", "O", "N", "A", "U", "T", "I", "C", "A", "L", " ", "F", "I", "X", "E", "D", " ", "T", "E", "L", "E", "C", "O", "M", "M", "U", "N", "I", "C", "A", "T", "I", "O", "N", " ", "N", "E", "T", "W", "O", "R", "K">>],
       [key |-> <<"A", "G", "L">>, expansion |-> <<"A", "B", "O", "V", "E", " ", "G", "R", "O", "U", "N", "D", " ", "L", "E", "V", "E", "L">>],
       [key |-> <<"A", "M", "S", "L">>, expansion |-> <<"A", "B", "O", "V", "E", " ", "M", "E", "A", "N", " ", "S", "E", "A", " ", "L", "E", "V", "E", "L">>],
       [key |-> <<"A", "P", "C", "H">>, expansion |-> <<"A", "P", "P", "R", "O", "A", "C", "H">>],
       [key |-> <<"A", "P", "T">>, expansion |-> <<"A", "I", "R", "P", "O", "R", "T">>],
       [key |-> <<"A", "R", "P", "T">>, expansion |-> <<"A", "I", "R", "P", "O", "R", "T">>],
       [key |-> <<"T", "W", "R">>, expansion |-> <<"T", "O", "W", "E", "R">>],
       [key |-> <<"G", "N", "D">>, expansion |-> <<"G", "R", "O", "U", "N", "D">>],
       [key |-> <<"A", "P", "P">>, expansion |-> <<"A", "P", "P", "R", "O", "A", "C", "H">>],
       [key |-> <<"D", "E", "P">>, expansion |-> <<"D", "E", "P", "A", "R", "T", "U", "R", "E">>],
       [key |-> <<"R", "W", "Y">>, expansion |-> <<"R", "U", "N", "W", "A", "Y">>],
       [key |-> <<"T", "W", "Y">>, expansion |-> <<"T", "A", "X", "I", "W", "A", "Y">>],
       [key |-> <<"T", "K", "O", "F">>, expansion |-> <<"T", "A", "K", "E", "O", "F", "F">>],
       [key |-> <<"L", "D", "G">>, expansion |-> <<"L", "A", "N", "D", "I", "N", "G">>],
       [key |-> <<"C", "L", "S", "D">>, expansion |-> <<"C", "L", "O", "S", "E", "D">>],
       [key |-> <<"A", "V", "B", "L">>, expansion |-> <<"A", "V", "A", "I", "L", "A", "B", "L", "E">>],
       [key |-> <<"R", "E", "Q">>, expansion |-> <<"R", "E", "Q", "U", "E", "S", "T">>],
       [key |-> <<"B", "T", "N">>, expansion |-> <<"B", "E", "T", "W", "E", "E", "N">>],
       [key |-> <<"L", "C", "L">>, expansion |-> <<"L", "O", "C", "A", "L">>],
       [key |-> <<"F", "M">>, expansion |-> <<"F", "R", "O", "M">>],
       [key |-> <<"T", "I", "L">>, expansion |-> <<"U", "N", "T", "I", "L">>],
       [key |-> <<"P", "E", "R", "M">>, expansion |-> <<"P", "E", "R", "M", "A", "N", "E", "N", "T">>],
       [key |-> <<"T", "E", "M", "P">>, expansion |-> <<"T", "E", "M", "P", "O", "R", "A", "R", "Y">>],
       [key |-> <<"D", "L", "Y">>, expansion |-> <<"D", "A", "I", "L", "Y">>],
       [key |-> <<"W", "E", "F">>, expansion |-> <<"W", "I", "T", "H", " ", "E", "F", "F", "E", "C", "T", " ", "F", "R", "O", "M">>],
       [key |-> <<"A", "P", "P", "X">>, expansion |-> <<"A", "P", "P", "R", "O", "X", "I", "M", "A", "T", "E", "L", "Y">>],
       [key |-> <<"W", "X">>, expansion |-> <<"W", "E", "A", "T", "H", "E", "R">>],
       [key |-> <<"V", "I", "S">>, expansion |-> <<"V", "I", "S", "I", "B", "I", "L", "I", "T", "Y">>],
       [key |-> <<"O", "B", "S", "C", "N">>, expansion |-> <<"O", "B", "S", "C", "U", "R", "A", "T", "I", "O", "N">>],
       [key |-> <<"F", "G">>, expansion |-> <<"F", "O", "G">>],
       [key |-> <<"B", "R">>, expansion |-> <<"M", "I", "S", "T">>],
       [key |-> <<"R", "A">>, expansion |-> <<"R", "A", "I", "N">>],
       [key |-> <<"S", "N">>, expansion |-> <<"S", "N", "O", "W">>],
       [key |-> <<"T", "S">>, expansion |-> <<"T", "H", "U", "N", "D", "E", "R", "S", "T", "O", "R", "M">>],
       [key |-> <<"O", "P", "R">>, expansion |-> <<"O", "P", "E", "R", "A", "T", "E", "/", "O", "P", "E", "R", "A", "T", "I", "N", "G">>],
       [key |-> <<"O", "P", "N", "L">>, expansion |-> <<"O", "P", "E", "R", "A", "T", "I", "O", "N", "A", "L">>],
       [key |-> <<"I", "N", "O", "P">>, expansion |-> <<"I", "N", "O", "P", "E", "R", "A", "T", "I", "V", "E">>],
       [key |-> <<"U", "/", "S">>, expansion |-> <<"U", "N", "S", "E", "R", "V", "I", "C", "E", "A", "B", "L", "E">>],
       [key |-> <<"M", "A", "I", "N", "T">>, expansion |-> <<"M", "A", "I", "N", "T", "E", "N", "A", "N", "C", "E">>],
       [key |-> <<"C", "O", "N", "S", "T">>, expansion |-> <<"C", "O", "N", "S", "T", "R", "U", "C", "T", "I", "O", "N">>],
       [key |-> <<"W", "I", "P">>, expansion |-> <<"W", "O", "R", "K", " ", "I", "N", " ", "P", "R", "O", "G", "R", "E", "S", "S">>],
       [key |-> <<"O", "B", "S", "T">>, expansion |-> <<"O", "B", "S", "T", "A", "C", "L", "E">>],
       [key |-> <<"E", "Q", "P", "T">>, expansion |-> <<"E", "Q", "U", "I", "P", "M", "E", "N", "T">>],
       [key |-> <<"S", "Y", "S">>, expansion |-> <<"S", "Y", "S", "T", "E", "M">>],
       [key |-> <<"P", "W", "R">>, expansion |-> <<"P", "O", "W", "E", "R">>],
       [key |-> <<"E", "L", "E", "C">>, expansion |-> <<"E", "L", "E", "C", "T", "R", "I", "C", "A", "L">>],
       [key |-> <<"L", "G", "T", "G">>, expansion |-> <<"L", "I", "G", "H", "T", "I", "N", "G">>],
       [key |-> <<"R", "E", "I", "L">>, expansion |-> <<"R", "U", "N", "W", "A", "Y", " ", "E", "N", "D", " ", "I", "D", "E", "N", "T", "I", "F", "I", "E", "R", " ", "L", "I", "G", "H", "T", "S">>],
       [key |-> <<"L", "G", "T", "D">>, expansion |-> <<"L", "I", "G", "H", "T", "E", "D">>],
       [key |-> <<"M", "I", "L">>, expansion |-> <<"M", "I", "L", "I", "T", "A", "R", "Y">>],
       [key |-> <<"A", "C", "F", "T">>, expansion |-> <<"A", "I", "R", "C", "R", "A", "F", "T">>],
       [key |-> <<"A", "L", "T">>, expansion |-> <<"A", "L", "T", "I", "T", "U", "D", "E">>],
       [key |-> <<"F", "L">>, expansion |-> <<"F", "L", "I", "G", "H", "T", " ", "L", "E", "V", "E", "L">>],
       [key |-> <<"F", "T">>, expansion |-> <<"F", "E", "E", "T">>],
       [key |-> <<"N", "M">>, expansion |-> <<"N", "A", "U", "T", "I", "C", "A", "L", " ", "M", "I", "L", "E", "S">>],
       [key |-> <<"K", "T">>, expansion |-> <<"K", "N", "O", "T", "S">>],
       [key |-> <<"D", "E", "G">>, expansion |-> <<"D", "E", "G", "R", "E", "E", "S">>],
       [key |-> <<"M", "A", "G">>, expansion |-> <<"M", "A", "G", "N", "E", "T", "I", "C">>],
       [key |-> <<"T", "R", "U", "E">>, expansion |-> <<"T", "R", "U", "E">>],
       [key |-> <<"V", "A", "R">>, expansion |-> <<"V", "A", "R", "I", "A", "T", "I", "O", "N">>],
       [key |-> <<"F", "R", "E", "Q">>, expansion |-> <<"F", "R", "E", "Q", "U", "E", "N", "C", "Y">>],
       [key |-> <<"M", "H", "Z">>, expansion |-> <<"M", "E", "G", "A", "H", "E", "R", "T", "Z">>],
       [key |-> <<"K", "H", "Z">>, expansion |-> <<"K", "I", "L", "O", "H", "E", "R", "T", "Z">>],
       [key |-> <<"C", "O", "M">>, expansion |-> <<"C", "O", "M", "M", "U", "N", "I", "C", "A", "T", "I", "O", "N">>],
       [key |-> <<"R", "A", "D">>, expansion |-> <<"R", "A", "D", "I", "O">>],
       [key |-> <<"T", "E", "L">>, expansion |-> <<"T", "E", "L", "E", "P", "H", "O", "N", "E">>] >>

\* The abbreviations of faa-notam.ts: the same keys, expansions in lower case.
AbbreviationsOld ==
    << [key |-> <<"A", "D">>, expansion |-> <<"a", "e", "r", "o", "d", "r", "o", "m", "e">>],
       [key |-> <<"A", "F", "T", "N">>, expansion |-> <<"a", "e", "r", "o", "n", "a", "u", "t", "i", "c", "a", "l", " ", "f", "i", "x", "e", "d", " ", "t", "e", "l", "e", "c", "o", "m", "m", "u", "n", "i", "c", "a", "t", "i", "o", "n", " ", "n", "e", "t", "w", "o", "r", "k">>],
       [key |-> <<"A", "G", "L">>, expansion |-> <<"a", "b", "o", "v", "e", " ", "g", "r", "o", "u", "n", "d", " ", "l", "e", "v", "e", "l">>],
       [key |-> <<"A", "M", "S", "L">>, expansion |-> <<"a", "b", "o", "v", "e", " ", "m", "e", "a", "n", " ", "s", "e", "a", " ", "l", "e", "v", "e", "l">>],
       [key |-> <<"A", "P", "C", "H">>, expansion |-> <<"a", "p", "p", "r", "o", "a", "c", "h">>],
       [key |-> <<"A", "P", "T">>, expansion |-> <<"a", "i", "r", "p", "o", "r", "t">>],
       [key |-> <<"A", "R", "P", "T">>, expansion |-> <<"a", "i", "r", "p", "o", "r", "t">>],
       [key |-> <<"T", "W", "R">>, expansion |-> <<"t", "o", "w", "e", "r">>],
       [key |-> <<"G", "N", "D">>, expansion |-> <<"g", "r", "o", "u", "n", "d">>],
       [key |-> <<"A", "P", "P">>, expansion |-> <<"a", "p", "p", "r", "o", "a", "c", "h">>],
       [key |-> <<"D", "E", "P">>, expansion |-> <<"d", "e", "p", "a", "r", "t", "u", "r", "e">>],
       [key |-> <<"R", "W", "Y">>, expansion |-> <<"r", "u", "n", "w", "a", "y">>],
       [key |-> <<"T", "W", "Y">>, expansion |-> <<"t", "a", "x", "i", "w", "a", "y">>],
       [key |-> <<"T", "K", "O", "F">>, expansion |-> <<"t", "a", "k", "e", "o", "f", "f">>],
       [key |-> <<"L", "D", "G">>, expansion |-> <<"l", "a", "n", "d", "i", "n", "g">>],
       [key |-> <<"C", "L", "S", "D">>, expansion |-> <<"c", "l", "o", "s", "e", "d">>],
       [key |-> <<"A", "V", "B", "L">>, expansion |-> <<"a", "v", "a", "i", "l", "a", "b", "l", "e">>],
       [key |-> <<"R", "E", "Q">>, expansion |-> <<"r", "e", "q", "u", "e", "s", "t">>],
       [key |-> <<"B", "T", "N">>, expansion |-> <<"b", "e", "t", "w", "e", "e", "n">>],
       [key |-> <<"L", "C", "L">>, expansion |-> <<"l", "o", "c", "a", "l">>],
       [key |-> <<"F", "M">>, expansion |-> <<"f", "r", "o", "m">>],
       [key |-> <<"T", "I", "L">>, expansion |-> <<"u", "n", "t", "i", "l">>],
       [key |-> <<"P", "E", "R", "M">>, expansion |-> <<"p", "e", "r", "m", "a", "n", "e", "n", "t">>],
       [key |-> <<"T", "E", "M", "P">>, expansion |-> <<"t", "e", "m", "p", "o", "r", "a", "r", "y">>],
       [key |-> <<"D", "L", "Y">>, expansion |-> <<"d", "a", "i", "l", "y">>],
       [key |-> <<"W", "E", "F">>, expansion |-> <<"w", "i", "t", "h", " ", "e", "f", "f", "e", "c", "t", " ", "f", "r", "o", "m">>],
       [key |-> <<"A", "P", "P", "X">>, expansion |-> <<"a", "p", "p", "r", "o", "x", "i", "m", "a", "t", "e", "l", "y">>],
       [key |-> <<"W", "X">>, expansion |-> <<"w", "e", "a", "t", "h", "e", "r">>],
       [key |-> <<"V", "I", "S">>, expansion |-> <<"v", "i", "s", "i", "b", "i", "l", "i", "t", "y">>],
       [key |-> <<"O", "B", "S", "C", "N">>, expansion |-> <<"o", "b", "s", "c", "u", "r", "a", "t", "i", "o", "n">>],
       [key |-> <<"F", "G">>, expansion |-> <<"f", "o", "g">>],
       [key |-> <<"B", "R">>, expansion |-> <<"m", "i", "s", "t">>],
       [key |-> <<"R", "A">>, expansion |-> <<"r", "a", "i", "n">>],
       [key |-> <<"S", "N">>, expansion |-> <<"s", "n", "o", "w">>],
       [key |-> <<"T", "S">>, expansion |-> <<"t", "h", "u", "n", "d", "e", "r", "s", "t", "o", "r", "m">>],
       [key |-> <<"O", "P", "R">>, expansion |-> <<"o", "p", "e", "r", "a", "t", "e", "/", "o", "p", "e", "r", "a", "t", "i", "n", "g">>],
       [key |-> <<"O", "P", "N", "L">>, expansion |-> <<"o", "p", "e", "r", "a", "t", "i", "o", "n", "a", "l">>],
       [key |-> <<"I", "N", "O", "P">>, expansion |-> <<"i", "n", "o", "p", "e", "r", "a", "t", "i", "v", "e">>],
       [key |-> <<"U", "/", "S">>, expansion |-> <<"u", "n", "s", "e", "r", "v", "i", "c", "e", "a", "b", "l", "e">>],
       [key |-> <<"M", "A", "I", "N", "T">>, expansion |-> <<"m", "a", "i", "n", "t", "e", "n", "a", "n", "c", "e">>],
       [key |-> <<"C", "O", "N", "S", "T">>, expansion |-> <<"c", "o", "n", "s", "t", "r", "u", "c", "t", "i", "o", "n">>],
       [key |-> <<"W", "I", "P">>, expansion |-> <<"w", "o", "r", "k", " ", "i", "n", " ", "p", "r", "o", "g", "r", "e", "s", "s">>],
       [key |-> <<"O", "B", "S", "T">>, expansion |-> <<"o", "b", "s", "t", "a", "c", "l", "e">>],
       [key |-> <<"E", "Q", "P", "T">>, expansion |-> <<"e", "q", "u", "i", "p", "m", "e", "n", "t">>],
       [key |-> <<"S", "Y", "S">>, expansion |-> <<"s", "y", "s", "t", "e", "m">>],
       [key |-> <<"P", "W", "R">>, expansion |-> <<"p", "o", "w", "e", "r">>],
       [key |-> <<"E", "L", "E", "C">>, expansion |-> <<"e", "l", "e", "c", "t", "r", "i", "c", "a", "l">>],
       [key |-> <<"L", "G", "T", "G">>, expansion |-> <<"l", "i", "g", "h", "t", "i", "n", "g">>],
       [key |-> <<"R", "E", "I", "L">>, expansion |-> <<"r", "u", "n", "w", "a", "y", " ", "e", "n", "d", " ", "i", "d", "e", "n", "t", "i", "f", "i", "e", "r", " ", "l", "i", "g", "h", "t", "s">>],
       [key |-> <<"L", "G", "T", "D">>, expansion |-> <<"l", "i", "g", "h", "t", "e", "d">>],
       [key |-> <<"M", "I", "L">>, expansion |-> <<"m", "i", "l", "i", "t", "a", "r", "y">>],
       [key |-> <<"A", "C", "F", "T">>, expansion |-> <<"a", "i", "r", "c", "r", "a", "f", "t">>],
       [key |-> <<"A", "L", "T">>, expansion |-> <<"a", "l", "t", "i", "t", "u", "d", "e">>],
       [key |-> <<"F", "L">>, expansion |-> <<"f", "l", "i", "g", "h", "t", " ", "l", "e", "v", "e", "l">>],
       [key |-> <<"F", "T">>, expansion |-> <<"f", "e", "e", "t">>],
       [key |-> <<"N", "M">>, expansion |-> <<"n", "a", "u", "t", "i", "c", "a", "l", " ", "m", "i", "l", "e", "s">>],
       [key |-> <<"K", "T">>, expansion |-> <<"k", "n", "o", "t", "s">>],
       [key |-> <<"D", "E", "G">>, expansion |-> <<"d", "e", "g", "r", "e", "e", "s">>],
       [key |-> <<"M", "A", "G">>, expansion |-> <<"m", "a", "g", "n", "e", "t", "i", "c">>],
       [key |-> <<"T", "R", "U", "E">>, expansion |-> <<"t", "r", "u", "e">>],
       [key |-> <<"V", "A", "R">>, expansion |-> <<"v", "a", "r", "i", "a", "t", "i", "o", "n">>],
       [key |-> <<"F", "R", "E", "Q">>, expansion |-> <<"f", "r", "e", "q", "u", "e", "n", "c", "y">>],
       [key |-> <<"M", "H", "Z">>, expansion |-> <<"m", "e", "g", "a", "h", "e", "r", "t", "z">>],
       [key |-> <<"K", "H", "Z">>, expansion |-> <<"k", "i", "l", "o", "h", "e", "r", "t", "z">>],
       [key |-> <<"C", "O", "M">>, expansion |-> <<"c", "o", "m", "m", "u", "n", "i", "c", "a", "t", "i", "o", "n">>],
       [key |-> <<"R", "A", "D">>, expansion |-> <<"r", "a", "d", "i", "o">>],
       [key |-> <<"T", "E", "L">>, expansion |-> <<"t", "e", "l", "e", "p", "h", "o", "n", "e">>] >>

LowerLetters ==
    <<"a", "b", "c", "d", "e", "f", "g", "h", "i", "j", "k", "l", "m", "n", "o", "p", "q", "r", "s", "t", "u", "v", "w", "x", "y", "z">>
UpperLetters ==
    <<"A", "B", "C", "D", "E", "F", "G", "H", "I", "J", "K", "L", "M", "N", "O", "P", "Q", "R", "S", "T", "U", "V", "W", "X", "Y", "Z">>

LowerSet == {LowerLetters[i] : i \in 1..26}

\* The upper-case letter of every lower-case letter
UpperOfLower ==
    [c \in LowerSet |->
        UpperLetters[CHOOSE i \in 1..26 : LowerLetters[i] = c]]

WordChars ==
    LowerSet \cup {UpperLetters[i] : i \in 1..26} \cup {DigitChars[i] : i \in 1..10} \cup {"_"}

IsLower(c) == c \in LowerSet
IsUpper(c) == \E i \in 1..26 : UpperLetters[i] = c

\* toUpperCase of an ASCII character
ToUpperAscii(c) == IF IsLower(c) THEN UpperOfLower[c] ELSE c

\* \w
IsWordChar(c) == c \in WordChars

\* Case folding of the i flag (without the u flag): a character is compared
\* by its upper case, except that a character outside ASCII never folds to
\* an ASCII one.  "U+0131" is the dotless i, whose upper case is "I".
Canonicalize(c) == ToUpperAscii(c)

\* toLocaleUpperCase of one character (root locale)
UpperCaseOf(c) == IF c = "U+0131" THEN "I" ELSE ToUpperAscii(c)

WordAt(text, p) == p \in 1..Len(text) /\ IsWordChar(text[p])

\* \b before position p
Boundary(text, p) == WordAt(text, p - 1) # WordAt(text, p)

\* A string with every character in its canonical form
Fold(s) == SubSeq([i \in DOMAIN s |-> Canonicalize(s[i])], 1, Len(s))

\* Mutant of MatchAt: the key is matched anywhere, not only as a whole word.
MatchAtAnywhere(text, i, key) ==
    /\ i + Len(key) - 1 <= Len(text)
    /\ \A j \in 1..Len(key) : text[i + j - 1] = key[j]

\* new RegExp(`\\b${abbrev}\\b`, 'gi') matches at position i; text and key
\* are in canonical form, which leaves word characters word characters
MatchAt(text, i, key) ==
    /\ i + Len(key) - 1 <= Len(text)
    /\ \A j \in 1..Len(key) : text[i + j - 1] = key[j]
    /\ Boundary(text, i)
    /\ Boundary(text, i + Len(key))

\* processedText.replace(regex, expansion), from position i on: every match,
\* left to right, the search resuming after each match.  `folded` is the
\* text and `key` the key in canonical form.
RECURSIVE ReplaceFrom(_, _, _, _, _)
ReplaceFrom(text, folded, i, key, expansion) ==
    LET matches == {j \in i..Len(text) : MatchAt(folded, j, key)} IN
    IF matches = {} THEN SubSeq(text, i, Len(text))
    ELSE LET m == CHOOSE j \in matches : \A l \in matches : j <= l
         IN  SubSeq(text, i, m - 1) \o expansion
                 \o ReplaceFrom(text, folded, m + Len(key), key, expansion)

ReplaceAll(text, key, expansion) == ReplaceFrom(text, Fold(text), 1, Fold(key), expansion)

\* The loop over the entries: entry order[k], then the entries after it
RECURSIVE ApplyInOrder(_, _, _, _)
\* (nothing matches in an empty text)
ApplyInOrder(text, abbreviations, order, k) ==
    IF k > Len(order) \/ text = <<>> THEN text
    ELSE ApplyInOrder(ReplaceAll(text, abbreviations[order[k]].key,
                                 abbreviations[order[k]].expansion),
                      abbreviations, order, k + 1)

\* text.replace(/\n/g, ' ')
NewlinesToSpaces(s) == [i \in DOMAIN s |-> IF s[i] = "\n" THEN " " ELSE s[i]]

\* String.prototype.trim
Trim(s) ==
    LET inked == {i \in DOMAIN s : s[i] \notin WhiteSpace}
    IN  IF inked = {} THEN <<>>
        ELSE SubSeq(s, CHOOSE i \in inked : \A j \in inked : i <= j,
                       CHOOSE i \in inked : \A j \in inked : i >= j)

\* replace(/\s+/g, ' ')
RECURSIVE CollapseSpaces(_)
CollapseSpaces(s) ==
    IF s = <<>> THEN <<>>
    ELSE IF s[1] \in WhiteSpace
    THEN IF Len(s) > 1 /\ s[2] \in WhiteSpace THEN CollapseSpaces(Tail(s))
         ELSE <<" ">> \o CollapseSpaces(Tail(s))
    ELSE <<s[1]>> \o CollapseSpaces(Tail(s))

\* toLocaleUpperCase
ToLocaleUpperCase(s) == [i \in DOMAIN s |-> UpperCaseOf(s[i])]

\* The body of parseText with the entries applied in the given order
Normalize(text, abbreviations, order) ==
    IF text = <<>> THEN <<>>
    ELSE ToLocaleUpperCase(Trim(CollapseSpaces(
             ApplyInOrder(Trim(NewlinesToSpaces(text)), abbreviations, order, 1))))

\* Object.entries(abbreviations): the entries in insertion order
DictionaryOrder == [i \in 1..Len(Abbreviations) |-> i]

\* parseText of the current variant
parseText(text) == Normalize(text, Abbreviations, DictionaryOrder)

\* parseText of faa-notam.ts
parseTextOld(text) == Normalize(text, AbbreviationsOld, DictionaryOrder)

----------------------------------------------------------------------------
(* FAA NOTAM (two variants) *)

FaaEndpoint(uri) == [base |-> "https://notams.aim.faa.gov/notamSearch/", uri |-> uri]

\* apiOptions of baseApiRaw / baseApi: the caller's options, the cache hint
\* and the timeout.
FaaApiOptions(options) ==
    Options(options.method, options.headers, options.body, <<FAA_CACHE_TTL>>, <<FAA_TIMEOUT>>)

NoOptions == Options("undefined", NoHeaders, "undefined", Undefined, Undefined)

\* The options of the search POST.
SearchOptions(icao) ==
    Options("POST", HeadersObject([n \in {"Content-Type"} |-> "application/x-www-form-urlencoded"]),
            <<"searchType=0", "designatorsForLocation", icao, "radius=10",
              "sortColumns=5+false", "sortDirection=true", "offset=0">>,
            Undefined, Undefined)

\* contentType && contentType.includes('application/json')
NotamContentTypes == {"application/json", "application/json; charset=utf-8", "text/html", ""}

\* Mutant of IsJson: only a missing header is refused.
IsJsonWhenPresent(contentType) == contentType # ""

IsJson(contentType) == contentType \in {"application/json", "application/json; charset=utf-8"}

\* A raw NOTAM record: <<>> (or "") is an absent or empty field.  A null entry
\* of notamList is [isNull |-> TRUE].
NotamRecord(icaoId, messages, points, dates) ==
    [isNull |-> FALSE, notamNumber |-> "A0001/25", icaoId |-> icaoId, source |-> "USNS",
     icaoMessage |-> messages[1], traditionalMessage |-> messages[2],
     traditionalMessageFrom4thWord |-> messages[3],
     notamGeometry |-> points[1], mapPointer |-> points[2],
     startDate |-> dates[1], endDate |-> dates[2], issueDate |-> dates[3]]

NullRecord == [isNull |-> TRUE]

\* Field values of the upstream: points of both forms, one out of range, and
\* dates that match the format or do not.
KennedyPoint == <<"P", "O", "I", "N", "T", "(", "-", "7", "3", ".", "7", "8", " ", "4", "0", ".", "6", "5", ")">>
SchipholPoint == <<"[", "4", ".", "7", "5", ",", "5", "2", ".", "3", "]">>
OutOfRangePoint == <<"[", "2", "0", "0", ",", "4", "0", "]">>
StartDate == <<"0", "9", "/", "1", "1", "/", "2", "0", "2", "5", " ", "1", "7", "0", "7">>
EndDate == <<"1", "0", "/", "1", "1", "/", "2", "0", "2", "5", " ", "0", "0", "0", "0">>
IssueDate == <<"0", "9", "/", "1", "0", "/", "2", "0", "2", "5", " ", "0", "9", "3", "0">>
Permanent == <<"P", "E", "R", "M">>

NotamRecords ==
    { NotamRecord("kjfk",
                  <<<<"A", "1", "/", "2", "5", " ", "N", "O", "T", "A", "M", "N">>, <<"!", "A", "M", "S", " ", "R", "W", "Y", " ", "C", "L", "S", "D">>, <<"R", "W", "Y", " ", "C", "L", "S", "D">>>>,
                  <<KennedyPoint, SchipholPoint>>, <<StartDate, EndDate, IssueDate>>),
      NotamRecord("",
                  <<<<"A", "2", "/", "2", "5", " ", "N", "O", "T", "A", "M", "N">>, <<>>, <<>>>>,
                  <<<<>>, SchipholPoint>>, <<Permanent, Permanent, <<>>>>),
      NotamRecord("EHAM",
                  <<<<>>, <<"!", "A", "M", "S", " ", "T", "W", "Y", " ", "C", "L", "S", "D">>, <<>>>>,
                  <<OutOfRangePoint, SchipholPoint>>, <<StartDate, <<>>, Permanent>>),
      NotamRecord("", <<<<>>, <<>>, <<>>>>, <<<<>>, <<>>>>, <<<<>>, <<>>, <<>>>>) }

\* Decoded NOTAM bodies: null, or an object with or without notamList (an
\* array, or some other truthy value) and with or without message fields.
NotamData(notamList, record) ==
    [isNull |-> FALSE, notamList |-> notamList, record |-> record]

NotamLists ==
    {[kind |-> "absent"], [kind |-> "other"]}
      \cup {[kind |-> "array", list |-> l] : l \in SeqsUpTo(NotamRecords \cup {NullRecord}, MaxItems)}

NotamDatas == {NullData} \cup {NotamData(l, r) : l \in NotamLists, r \in NotamRecords}

NotamResponses == ResponsesWith(NotamDatas, NotamContentTypes)

\* a || b || c on message fields
FirstNonEmpty(a, b, c) == IF a # <<>> THEN a ELSE IF b # <<>> THEN b ELSE c

\* new Date(): the current time, whatever it is.
NewDate == [now |-> TRUE, minutes |-> 0]

\* Mutant of OrNewDate: an unparsable date becomes the epoch.
OrEpoch(date) == [now |-> FALSE, minutes |-> IF date # Undefined THEN date[1] ELSE 0]

\* parseNotamDate(...) || new Date()
OrNewDate(date) == IF date # Undefined THEN [now |-> FALSE, minutes |-> date[1]] ELSE NewDate

\* notam.notamGeometry ? parsePoint(notam.notamGeometry)
\*     : notam.mapPointer ? parsePoint(notam.mapPointer) : undefined
Coordinates(notam) ==
    IF notam.notamGeometry # <<>> THEN parsePoint(notam.notamGeometry)
    ELSE IF notam.mapPointer # <<>> THEN parsePoint(notam.mapPointer)
    ELSE Undefined

\* transformNotamData of the current variant; it reads fields of its
\* argument, which throws on a null record.
transformNotamData(notam) ==
    [id   |-> notam.notamNumber,
     icao |-> IF isICAO(notam.icaoId) THEN <<normalizeICAO(notam.icaoId)>> ELSE Undefined,
     type |-> "A", scope |-> "A", priority |-> "NORMAL", subject |-> "",
     text |-> parseText(FirstNonEmpty(notam.traditionalMessageFrom4thWord,
                                      notam.traditionalMessage, notam.icaoMessage)),
     coordinates |-> Coordinates(notam),
     schedule |-> [effectiveFrom  |-> OrNewDate(parseNotamDate(notam.startDate)),
                   effectiveUntil |-> parseNotamDate(notam.endDate)],
     source |-> IF notam.source # "" THEN <<notam.source>> ELSE Undefined,
     raw  |-> notam.icaoMessage,
     issued |-> OrNewDate(parseNotamDate(notam.issueDate))]

\* transformNotamData of faa-notam.ts: the text never falls back to
\* icaoMessage, the code is taken as it is, the dates are local times.
transformNotamDataOld(notam, offset) ==
    [id   |-> notam.notamNumber,
     icao |-> IF notam.icaoId # "" THEN <<notam.icaoId>> ELSE Undefined,
     type |-> "A", scope |-> "A", priority |-> "NORMAL", subject |-> "",
     text |-> parseTextOld(FirstNonEmpty(notam.traditionalMessageFrom4thWord,
                                         notam.traditionalMessage, <<>>)),
     coordinates |-> Coordinates(notam),
     schedule |-> [effectiveFrom  |-> OrNewDate(parseNotamDateOld(notam.startDate, offset)),
                   effectiveUntil |-> parseNotamDateOld(notam.endDate, offset)],
     source |-> IF notam.source # "" THEN <<notam.source>> ELSE Undefined,
     raw  |-> notam.icaoMessage,
     issued |-> OrNewDate(parseNotamDateOld(notam.issueDate, offset))]

\* The transformed form of every record of the upstream.
Transformed == [notam \in NotamRecords |-> transformNotamData(notam)]
TransformedOld == [notam \in NotamRecords |-> [offset \in LocalOffsets |-> transformNotamDataOld(notam, offset)]]

TransformError(notam) ==
    IF notam.isNull THEN <<TypeErrorOf(<<"notam is null">>)>> ELSE Undefined

\* data.icaoMessage || data.traditionalMessageFrom4thWord || data.traditionalMessage
HasMessage(record) ==
    record.icaoMessage # <<>> \/ record.traditionalMessageFrom4thWord # <<>>
        \/ record.traditionalMessage # <<>>

\* The records selected from a decoded body: the notamList array, else the
\* body itself when it has a message field, else nothing.
SelectRecords(data) ==
    IF ~data.isNull /\ data.notamList.kind = "array" THEN data.notamList.list
    ELSE IF ~data.isNull /\ HasMessage(data.record) THEN <<data.record>>
    ELSE <<>>

\* baseApiRaw, from the settled fetchApi call on: nothing is caught; returns
\* the decoded body.
BaseApiRaw(uri, options, fetched) ==
    IF fetched.kind = "thrown" THEN fetched
    ELSE LET resp == fetched.value IN
         IF ~Ok(resp)
         THEN Thrown(ApiError("FAA NOTAM", FaaEndpoint(uri), FaaApiOptions(options),
                              HttpStatusText(resp)))
         ELSE IF ~IsJson(resp.contentType)
         THEN Thrown(ApiError("FAA NOTAM", FaaEndpoint(uri), FaaApiOptions(options),
                              Str(<<"Returned non-JSON response", resp.contentType>>)))
         ELSE IF ~resp.body.decodes THEN Thrown(JsonSyntaxError)
         ELSE Returned(resp.body.data)

\* baseApi of the current variant: the records of baseApiRaw's body, transformed.
NotamBaseApi(uri, options, fetched) ==
    LET raw == BaseApiRaw(uri, options, fetched) IN
    IF raw.kind = "thrown" THEN raw
    ELSE LET records == SelectRecords(raw.value)
         IN  MapAll([i \in DOMAIN records |-> TransformError(records[i])],
                    [i \in DOMAIN records |-> Transformed[records[i]]])

\* baseApi of faa-notam.ts: everything inside try/catch, plain Errors inside.
\* `offset` is the local zone the dates are read in.
NotamBaseApiOld(uri, options, fetched, offset) ==
    Catch(IF fetched.kind = "thrown" THEN fetched
          ELSE LET resp == fetched.value IN
               IF ~Ok(resp)
               THEN Thrown(PlainError(<<"Request failed with status", resp.status>>))
               ELSE IF ~IsJson(resp.contentType)
               THEN Thrown(PlainError(<<"Returned non-JSON response", resp.contentType>>))
               ELSE IF ~resp.body.decodes THEN Thrown(JsonSyntaxError)
               ELSE LET records == SelectRecords(resp.body.data)
                    IN  MapAll([i \in DOMAIN records |-> TransformError(records[i])],
                               [i \in DOMAIN records |-> TransformedOld[records[i]][offset]]),
          "FAA NOTAM", FaaEndpoint(uri), FaaApiOptions(options))

\* notams.length > 0 ? notams[0] : null
FirstOrNull(result) ==
    IF result.kind = "thrown" THEN result
    ELSE IF Len(result.value) > 0 THEN Returned(<<result.value[1]>>)
    ELSE Returned(Undefined)

----------------------------------------------------------------------------
(* Arguments of the entry points *)

IcaoCodes == {"eham", "KJFK"}

\* [longitude, latitude, ...] in thousandths of a degree
Locations == {<<4750, 52375>>, <<-73779, 40641>>, <<4750>>, <<4750, 52375, 11000>>}

\* kilometres; Undefined takes the default
Distances == {Undefined, <<-5>>, <<0>>, <<25>>}

\* [west, south, east, north] in thousandths of a degree
Bboxes == {<<-10000, 20000, -5000, 30000>>, <<-10125, 20375, -5004, 30006>>,
           <<4126, 52374, 4995, 52996>>}

\* days relative to now; Undefined is no date
Dates == {Undefined, <<-31>>, <<-30>>, <<0>>, <<1>>}

IcaoLists == SeqsUpTo(IcaoCodes, MaxCodes)

TransactionIds == {7}

\* The caller's headers: none, an object literal with a User-Agent (in the
\* default's spelling or in lower case), with another header, with both, and
\* a Headers instance.
HeaderChoices ==
    {NoHeaders,
     HeadersObject([n \in {"User-Agent"} |-> "custom/2.0"]),
     HeadersObject([n \in {"user-agent"} |-> "custom/2.0"]),
     HeadersObject([n \in {"Accept"} |-> "text/plain"]),
     HeadersObject([n \in {"Accept", "User-Agent"} |->
                       IF n = "Accept" THEN "text/plain" ELSE "custom/2.0"]),
     HeadersInstance([n \in {"Accept"} |-> "text/plain"])}

GatewayOptions ==
    {Options(m, h, "undefined", Undefined, t) :
        m \in {"undefined", "POST"}, h \in HeaderChoices, t \in {Undefined, <<0>>, <<5000>>}}

GatewayResponses == {Response(st, "text/plain", Undecodable) : st \in {200, 204, 404, 500}}

\* What the transport rejects with by itself: a network failure, or a timeout
\* of its own.
TransportErrors == {[type |-> "TypeError", message |-> <<"fetch failed">>],
                    [type |-> "TimeoutError", message |-> <<"timed out">>]}

AbortError == [type |-> "AbortError", message |-> <<"This operation was aborted">>]

\* The options object a caller hands to an entry point.  The entry points
\* read its fetcher (and apiKey) only: const { fetcher = fetch } = options.
NoEntryOptions == [timeout |-> Undefined]
EntryOptions == {NoEntryOptions, [timeout |-> <<100>>]}

\* An invocation: the entry point, its arguments, the caller's options
\* object (entry), the uri and options given to baseApi, and the options
\* baseApi gave to fetchApi (apiOptions).
Call(module, op, args, uri, options) ==
    [module |-> module, op |-> op, args |-> args, entry |-> NoEntryOptions,
     uri |-> uri, options |-> options, apiOptions |-> NoOptions]

\* The options objects an invocation can be given: the gateway and the
\* scalar parsers take none.
EntryOptionsOf(c) ==
    IF c.module = "http"
         \/ c.op \in {"parseNotamDate", "parsePoint", "parseText", "parseTextInOrder"}
    THEN {NoEntryOptions}
    ELSE EntryOptions

NoCall == Call("none", "none", <<>>, <<>>, NoOptions)

NoRequest == [signal |-> FALSE]
NoResponse == [status |-> 0]

----------------------------------------------------------------------------
(* Validation and query building of the entry points *)

\* distance: number = DEFAULT_RADIUS_KM
DistanceOrDefault(distance) == IF distance = Undefined THEN DEFAULT_RADIUS_KM ELSE distance[1]

\* getAerodromeByRadius of the current variant: what it throws before any request.
AerodromeRadiusError(location, distance) ==
    IF DistanceOrDefault(distance) <= 0
    THEN <<PlainError(<<"Distance must be a positive number">>)>>
    ELSE IF Len(location) # 2
    THEN <<PlainError(<<"Location must be a 2D coordinate">>)>>
    ELSE Undefined

\* getAerodromeByRadius of openaip.ts and OpenAip.getRadius.
OpenaipRadiusError(location, distance) ==
    IF DistanceOrDefault(distance) < 0
    THEN <<PlainError(<<"Distance must be greater than 0">>)>>
    ELSE IF Len(location) # 2
    THEN <<PlainError(<<"Location must be a 2D coordinate">>)>>
    ELSE Undefined

\* airports?pos=<lat>,<lon>&dist=<meters>&type=...&limit=200
RadiusUri(location, distance) ==
    [path  |-> "airports",
     pos   |-> <<Round2(location[2]), Round2(location[1])>>,
     dist  |-> DistanceOrDefault(distance) * KM_TO_METERS,
     types |-> AIRPORT_TYPES,
     limit |-> OPENAIP_RADIUS_LIMIT]

SearchUri(path, term) == [path |-> path, search |-> term, limit |-> OPENAIP_SEARCH_LIMIT]

\* Mutant of NoCodes: the empty list is not short-circuited.
NoCodesNever(icao) == Len(icao) < 0

\* if (!icao.length) return []
NoCodes(icao) == Len(icao) = 0

\* metar?ids=<codes>&format=json&taf=true<dateParam>
MetarIdsUri(ids, date) == [path |-> "metar", ids |-> ids, format |-> "json", taf |-> TRUE, date |-> date]

\* metar?bbox=<south,west,north,east>&format=json&taf=true<dateParam>
MetarBboxUri(bbox, date) ==
    [path |-> "metar", bbox |-> BboxReversed(bbox), format |-> "json", taf |-> TRUE, date |-> date]

NormalizeAll(icao) == [i \in DOMAIN icao |-> normalizeICAO(icao[i])]

----------------------------------------------------------------------------
(* The state machine *)

\* An invocation that has not started.
IdleSlot ==
    [pc |-> "idle", call |-> NoCall, request |-> NoRequest, timer |-> "none", aborted |-> FALSE,
     response |-> NoResponse, fetchResult |-> Pending, outcome |-> Pending]

Init ==
    /\ pc = "idle"
    /\ call = NoCall
    /\ request = NoRequest
    /\ fetcherCalls = 0
    /\ timer = "none"
    /\ aborted = FALSE
    /\ response = NoResponse
    /\ fetchResult = Pending
    /\ outcome = Pending
    /\ slots = [i \in 1..MaxCalls |-> IdleSlot]

\* The entry point calls fetchApi, which invokes the fetcher once and is
\* suspended on it.
Invoke(c, baseUrl, apiOptions) ==
    /\ pc' = "awaiting"
    /\ \E entry \in EntryOptionsOf(c) :
          call' = [c EXCEPT !.entry = entry, !.apiOptions = apiOptions]
    /\ request' = FetchApiRequest(baseUrl, apiOptions)
    /\ fetcherCalls' = fetcherCalls + 1
    /\ timer' = FetchApiTimer(apiOptions)
    /\ aborted' = FALSE
    /\ UNCHANGED <<response, fetchResult, outcome, slots>>

\* The entry point completes without calling fetchApi.
Settle(c, result) ==
    /\ pc' = "done"
    /\ \E entry \in EntryOptionsOf(c) : call' = [c EXCEPT !.entry = entry]
    /\ outcome' = result
    /\ UNCHANGED <<request, fetcherCalls, timer, aborted, response, fetchResult, slots>>

\* --- aerodrome (current variant) ---

GetAerodromeByIcao ==
    /\ pc = "idle"
    /\ \E icao \in IcaoCodes :
        LET uri == SearchUri("airports", icao)
        IN  Invoke(Call("aerodrome", "getAerodromeByIcao", <<icao>>, uri, NoOptions),
                   OpenAipEndpoint(uri), OpenAipApiOptions)

GetAerodromeByIata ==
    /\ pc = "idle"
    /\ \E iata \in {"AMS"} :
        LET uri == SearchUri("airports", iata)
        IN  Invoke(Call("aerodrome", "getAerodromeByIata", <<iata>>, uri, NoOptions),
                   OpenAipEndpoint(uri), OpenAipApiOptions)

GetAerodromeByRadius ==
    /\ pc = "idle"
    /\ \E location \in Locations, distance \in Distances :
        LET c(uri) == Call("aerodrome", "getAerodromeByRadius",
                           [location |-> location, distance |-> distance], uri, NoOptions)
            error  == AerodromeRadiusError(location, distance)
        IN  IF error # Undefined
            THEN Settle(c(<<>>), Thrown(error[1]))
            ELSE Invoke(c(RadiusUri(location, distance)),
                        OpenAipEndpoint(RadiusUri(location, distance)), OpenAipApiOptions)

\* --- openaip.ts ---

OpenaipGetAerodromeByIcao ==
    /\ pc = "idle"
    /\ \E icao \in IcaoCodes :
        LET uri == SearchUri("airports", icao)
        IN  Invoke(Call("openaip", "getAerodromeByIcao", <<icao>>, uri, NoOptions),
                   OpenAipEndpoint(uri), OpenAipApiOptions)

OpenaipGetAerodromeByRadius ==
    /\ pc = "idle"
    /\ \E location \in Locations, distance \in Distances :
        LET c(uri) == Call("openaip", "getAerodromeByRadius",
                           [location |-> location, distance |-> distance], uri, NoOptions)
            error  == OpenaipRadiusError(location, distance)
        IN  IF error # Undefined
            THEN Settle(c(<<>>), Thrown(error[1]))
            ELSE Invoke(c(RadiusUri(location, distance)),
                        OpenAipEndpoint(RadiusUri(location, distance)), OpenAipApiOptions)

\* --- class OpenAip ---

OpenAipGetIcao ==
    /\ pc = "idle"
    /\ \E icao \in IcaoCodes :
        LET uri == SearchUri("airports", icao)
        IN  Invoke(Call("OpenAip", "getIcao", <<icao>>, uri, NoOptions),
                   OpenAipEndpoint(uri), OpenAipApiOptions)

OpenAipGetRadius ==
    /\ pc = "idle"
    /\ \E location \in Locations, distance \in Distances :
        LET c(uri) == Call("OpenAip", "getRadius",
                           [location |-> location, distance |-> distance], uri, NoOptions)
            error  == OpenaipRadiusError(location, distance)
        IN  IF error # Undefined
            THEN Settle(c(<<>>), Thrown(error[1]))
            ELSE Invoke(c(RadiusUri(location, distance)),
                        OpenAipEndpoint(RadiusUri(location, distance)), OpenAipApiOptions)

\* --- navaid ---

GetNavaidByIcao ==
    /\ pc = "idle"
    /\ \E identifier \in {"SPY"} :
        LET uri == SearchUri("navaids", identifier)
        IN  Invoke(Call("navaid", "getNavaidByIcao", <<identifier>>, uri, NoOptions),
                   OpenAipEndpoint(uri), OpenAipApiOptions)

\* --- aviationweather, first variant (with a date argument) ---

GetMetarStationsByIcao ==
    /\ pc = "idle"
    /\ \E icao \in IcaoLists, date \in Dates :
        LET c(uri) == Call("aviationweather", "getMetarStationsByIcao",
                           [icao |-> icao, date |-> date], uri, NoOptions)
            error  == RecentDateError(date)
            uri    == MetarIdsUri(NormalizeAll(icao), date)
        IN  IF NoCodes(icao) THEN Settle(c(<<>>), Returned(<<>>))
            ELSE IF error # Undefined THEN Settle(c(<<>>), Thrown(error[1]))
            ELSE Invoke(c(uri), MetarEndpoint(uri), MetarApiOptions)

GetMetarStationsByBbox ==
    /\ pc = "idle"
    /\ \E bbox \in Bboxes, date \in Dates :
        LET c(uri) == Call("aviationweather", "getMetarStationsByBbox",
                           [bbox |-> bbox, date |-> date], uri, NoOptions)
            error  == RecentDateError(date)
            uri    == MetarBboxUri(bbox, date)
        IN  IF error # Undefined THEN Settle(c(<<>>), Thrown(error[1]))
            ELSE Invoke(c(uri), MetarEndpoint(uri), MetarApiOptions)

\* --- aviationweather, second variant ---

GetMetarStationsByIcao2 ==
    /\ pc = "idle"
    /\ \E icao \in IcaoLists :
        LET c(uri) == Call("aviationweather2", "getMetarStationsByIcao",
                           [icao |-> icao, date |-> Undefined], uri, NoOptions)
            uri    == MetarIdsUri(NormalizeAll(icao), Undefined)
        IN  IF NoCodes(icao) THEN Settle(c(<<>>), Returned(<<>>))
            ELSE Invoke(c(uri), MetarEndpoint(uri), MetarApiOptions)

GetMetarStationsByBbox2 ==
    /\ pc = "idle"
    /\ \E bbox \in Bboxes :
        LET uri == MetarBboxUri(bbox, Undefined)
        IN  Invoke(Call("aviationweather2", "getMetarStationsByBbox",
                        [bbox |-> bbox, date |-> Undefined], uri, NoOptions),
                   MetarEndpoint(uri), MetarApiOptions)

\* --- class Metar ---

MetarGetIcao ==
    /\ pc = "idle"
    /\ \E icao \in IcaoLists :
        LET c(uri) == Call("Metar", "getIcao", [icao |-> icao, date |-> Undefined], uri, NoOptions)
            uri    == MetarIdsUri(icao, Undefined)
        IN  IF NoCodes(icao) THEN Settle(c(<<>>), Returned(<<>>))
            ELSE Invoke(c(uri), MetarEndpoint(uri), MetarApiOptions)

MetarGetBbox ==
    /\ pc = "idle"
    /\ \E bbox \in Bboxes :
        LET uri == MetarBboxUri(bbox, Undefined)
        IN  Invoke(Call("Metar", "getBbox", [bbox |-> bbox, date |-> Undefined], uri, NoOptions),
                   MetarEndpoint(uri), MetarApiOptions)

\* --- faa-notam (current variant) ---

DetailsUri(transactionId) == [path |-> "details", transactionid |-> transactionId]
SearchPostUri == [path |-> "search"]

GetNotamsByIcao ==
    /\ pc = "idle"
    /\ \E icao \in IcaoCodes :
        Invoke(Call("faa-notam", "getNotamsByIcao", <<icao>>, SearchPostUri, SearchOptions(icao)),
               FaaEndpoint(SearchPostUri), FaaApiOptions(SearchOptions(icao)))

GetNotamsByTransactionId ==
    /\ pc = "idle"
    /\ \E id \in TransactionIds :
        Invoke(Call("faa-notam", "getNotamsByTransactionId", <<id>>, DetailsUri(id), NoOptions),
               FaaEndpoint(DetailsUri(id)), FaaApiOptions(NoOptions))

GetRawNotamsByIcao ==
    /\ pc = "idle"
    /\ \E icao \in IcaoCodes :
        Invoke(Call("faa-notam", "getRawNotamsByIcao", <<icao>>, SearchPostUri, SearchOptions(icao)),
               FaaEndpoint(SearchPostUri), FaaApiOptions(SearchOptions(icao)))

GetRawNotamsByTransactionId ==
    /\ pc = "idle"
    /\ \E id \in TransactionIds :
        Invoke(Call("faa-notam", "getRawNotamsByTransactionId", <<id>>, DetailsUri(id), NoOptions),
               FaaEndpoint(DetailsUri(id)), FaaApiOptions(NoOptions))

\* --- faa-notam.ts ---

OldGetNotamsByIcao ==
    /\ pc = "idle"
    /\ \E icao \in IcaoCodes, offset \in LocalOffsets :
        Invoke(Call("faa-notam.ts", "getNotamsByIcao", [icao |-> icao, offset |-> offset],
                    SearchPostUri, SearchOptions(icao)),
               FaaEndpoint(SearchPostUri), FaaApiOptions(SearchOptions(icao)))

OldGetNotamsByTransactionId ==
    /\ pc = "idle"
    /\ \E id \in TransactionIds, offset \in LocalOffsets :
        Invoke(Call("faa-notam.ts", "getNotamsByTransactionId",
                    [transactionId |-> id, offset |-> offset], DetailsUri(id), NoOptions),
               FaaEndpoint(DetailsUri(id)), FaaApiOptions(NoOptions))

\* --- the gateway called directly ---

FetchApi ==
    /\ pc = "idle"
    /\ \E options \in GatewayOptions :
        Invoke(Call("http", "fetchApi", <<>>, <<>>, options), "https://example.org/", options)

\* The rest of getRawNotamsByIcao after baseApiRaw.
RawByIcao(raw) ==
    IF raw.kind = "thrown" THEN raw ELSE Returned(SelectRecords(raw.value))

\* The rest of getRawNotamsByTransactionId after baseApiRaw.
RawByTransactionId(raw) ==
    IF raw.kind = "thrown" THEN raw
    ELSE LET records == SelectRecords(raw.value)
         IN  IF Len(records) > 0 /\ ~records[1].isNull THEN Returned(<<records[1]>>)
             ELSE Returned(Undefined)      \* no element, or a first element that is null

\* What the invocation c does once its fetchApi call has settled as `fetched`.
Continue(c, fetched) ==
    CASE c.module = "http"             -> fetched
      [] c.module = "aerodrome"        -> AerodromeBaseApi(c.uri, fetched)
      [] c.module \in {"openaip", "OpenAip"} -> OpenaipBaseApi(c.uri, fetched)
      [] c.module = "navaid"           -> NavaidBaseApi(c.uri, fetched)
      [] c.module = "aviationweather"  -> MetarBaseApi(c.uri, fetched)
      [] c.module \in {"aviationweather2", "Metar"} -> MetarBaseApi2(c.uri, fetched)
      [] c.module = "faa-notam" /\ c.op = "getNotamsByIcao" ->
            NotamBaseApi(c.uri, c.options, fetched)
      [] c.module = "faa-notam" /\ c.op = "getNotamsByTransactionId" ->
            FirstOrNull(NotamBaseApi(c.uri, c.options, fetched))
      [] c.module = "faa-notam" /\ c.op = "getRawNotamsByIcao" ->
            RawByIcao(BaseApiRaw(c.uri, c.options, fetched))
      [] c.module = "faa-notam" /\ c.op = "getRawNotamsByTransactionId" ->
            RawByTransactionId(BaseApiRaw(c.uri, c.options, fetched))
      [] c.module = "faa-notam.ts" /\ c.op = "getNotamsByIcao" ->
            NotamBaseApiOld(c.uri, c.options, fetched, c.args.offset)
      [] c.module = "faa-notam.ts" /\ c.op = "getNotamsByTransactionId" ->
            FirstOrNull(NotamBaseApiOld(c.uri, c.options, fetched, c.args.offset))

\* The responses the upstream of an invocation can answer with.
ResponsesFor(c) ==
    CASE c.module = "http" -> GatewayResponses
      [] c.module \in {"aerodrome", "openaip", "OpenAip"} -> AerodromeResponses
      [] c.module = "navaid" -> NavaidResponses
      [] c.module \in {"aviationweather", "aviationweather2", "Metar"} -> MetarResponses
      [] c.module \in {"faa-notam", "faa-notam.ts"} -> NotamResponses

\* Mutant of OnSettled: a rejected request is issued once more.
OnSettledRetry(s) ==
    IF s.kind = "rejected" /\ fetcherCalls < 2
    THEN /\ fetcherCalls' = fetcherCalls + 1
         /\ UNCHANGED <<pc, call, request, timer, aborted, response, fetchResult, outcome, slots>>
    ELSE /\ pc' = "done"
         /\ timer' = ClearTimeout(timer)
         /\ response' = IF s.kind = "resolved" THEN s.response ELSE NoResponse
         /\ fetchResult' = FetchApiSettle(s)
         /\ outcome' = Continue(call, FetchApiSettle(s))
         /\ UNCHANGED <<call, request, fetcherCalls, aborted, slots>>

\* The fetcher's promise has settled as s: fetchApi's finally block clears
\* the timer, fetchApi settles, and the invocation runs to its end.
OnSettled(s) ==
    /\ pc' = "done"
    /\ timer' = ClearTimeout(timer)
    /\ response' = IF s.kind = "resolved" THEN s.response ELSE NoResponse
    /\ fetchResult' = FetchApiSettle(s)
    /\ outcome' = Continue(call, FetchApiSettle(s))
    /\ UNCHANGED <<call, request, fetcherCalls, aborted, slots>>

\* The transport answers.  A request that carries an aborted signal is never
\* answered: the transport rejects it (TransportAborts).
TransportResolves ==
    /\ pc = "awaiting"
    /\ ~(request.signal /\ aborted)
    /\ \E resp \in ResponsesFor(call) : OnSettled([kind |-> "resolved", response |-> resp])

\* The transport fails by itself.
TransportRejects ==
    /\ pc = "awaiting"
    /\ \E error \in TransportErrors : OnSettled([kind |-> "rejected", error |-> error])

\* The timeout elapses: the timer's callback runs controller.abort().
TimerFires ==
    /\ timer = "armed"
    /\ timer' = "fired"
    /\ aborted' = TRUE
    /\ UNCHANGED <<pc, call, request, fetcherCalls, response, fetchResult, outcome, slots>>

\* The transport rejects a request whose signal has been aborted.
TransportAborts ==
    /\ pc = "awaiting"
    /\ request.signal /\ aborted
    /\ OnSettled([kind |-> "rejected", error |-> AbortError])

\* The caller has its result; the next invocation starts from scratch.
Return ==
    /\ pc = "done"
    /\ pc' = "idle"
    /\ call' = NoCall
    /\ request' = NoRequest
    /\ fetcherCalls' = 0
    /\ timer' = "none"
    /\ aborted' = FALSE
    /\ response' = NoResponse
    /\ fetchResult' = Pending
    /\ outcome' = Pending
    /\ UNCHANGED slots

Next ==
    \/ GetAerodromeByIcao
    \/ GetAerodromeByIata
    \/ GetAerodromeByRadius
    \/ OpenaipGetAerodromeByIcao
    \/ OpenaipGetAerodromeByRadius
    \/ OpenAipGetIcao
    \/ OpenAipGetRadius
    \/ GetNavaidByIcao
    \/ GetMetarStationsByIcao
    \/ GetMetarStationsByBbox
    \/ GetMetarStationsByIcao2
    \/ GetMetarStationsByBbox2
    \/ MetarGetIcao
    \/ MetarGetBbox
    \/ GetNotamsByIcao
    \/ GetNotamsByTransactionId
    \/ GetRawNotamsByIcao
    \/ GetRawNotamsByTransactionId
    \/ OldGetNotamsByIcao
    \/ OldGetNotamsByTransactionId
    \/ FetchApi
    \/ TransportResolves
    \/ TransportRejects
    \/ TimerFires
    \/ TransportAborts
    \/ Return

Spec == Init /\ [][Next]_vars

\* The transport does reject an aborted request.
FairSpec == Spec /\ WF_vars(TransportAborts)

----------------------------------------------------------------------------
(* Properties *)

AerodromeModules == {"aerodrome", "openaip", "OpenAip"}
MetarModules == {"aviationweather", "aviationweather2", "Metar"}
NotamModules == {"faa-notam", "faa-notam.ts"}
PipelineModules == AerodromeModules \cup {"navaid"} \cup MetarModules \cup NotamModules

RadiusCall == call.module \in AerodromeModules /\ call.op \in {"getAerodromeByRadius", "getRadius"}
MetarByCodesCall == call.module \in MetarModules /\ call.op \in {"getMetarStationsByIcao", "getIcao"}
MetarByBboxCall == call.module \in MetarModules /\ call.op \in {"getMetarStationsByBbox", "getBbox"}

\* The invocation has ended with an ApiError that carries its four parts.
FailedWithApiError ==
    /\ outcome.kind = "thrown"
    /\ outcome.error.type = "ApiError"
    /\ outcome.error.serviceName # ""
    /\ outcome.error.endpoint.uri = call.uri
    /\ outcome.error.requestOptions.timeout # Undefined
    /\ outcome.error.cause.type # ""

\* C1: a radius search with distance <= 0 (0 included), or with a location
\* that has not exactly 2 elements, fails and never invokes the HTTP function.
C1_RadiusRejectedBeforeRequest ==
    (RadiusCall /\ (\/ (call.args.distance # Undefined /\ call.args.distance[1] <= 0)
                    \/ Len(call.args.location) # 2))
        => (fetcherCalls = 0 /\ outcome.kind = "thrown")

\* C2: METAR-by-codes with an empty list of codes returns an empty list and
\* never invokes the HTTP function.
C2_EmptyCodesReturnEmpty ==
    (MetarByCodesCall /\ Len(call.args.icao) = 0)
        => (pc = "done" /\ outcome = Returned(<<>>) /\ fetcherCalls = 0)

C2_Witness ==
    /\ MetarByCodesCall /\ Len(call.args.icao) = 0
    /\ call.args.date = <<-31>>
    /\ pc = "done"

\* C3: a METAR call whose upstream response has status 204 fails with an
\* ApiError; it never returns a list.
C3_NoContentFails ==
    (call.module \in MetarModules /\ pc = "done" /\ response.status = 204)
        => (outcome.kind = "thrown" /\ outcome.error.type = "ApiError")

C3_Witness ==
    /\ call.module = "aviationweather2" /\ MetarByBboxCall
    /\ pc = "done" /\ response.status = 204
    /\ outcome.kind = "thrown"

\* r (hundredths) is v (thousandths) rounded to 2 decimals
IsRoundedTo2(v, r) == 10 * r - v \in -5..5

\* C4: the bbox query parameter is south, west, north, east (input indices
\* 1, 0, 3, 2), each rounded to 2 decimals; [-10, 20, -5, 30] gives 20,-10,30,-5.
C4_BboxSouthWestNorthEast ==
    (MetarByBboxCall /\ fetcherCalls > 0) =>
        LET box == call.args.bbox
            out == request.url.uri.bbox
        IN  /\ Len(out) = 4
            /\ IsRoundedTo2(box[2], out[1])
            /\ IsRoundedTo2(box[1], out[2])
            /\ IsRoundedTo2(box[4], out[3])
            /\ IsRoundedTo2(box[3], out[4])
            /\ (box = <<-10000, 20000, -5000, 30000>> => out = <<2000, -1000, 3000, -500>>)

C4_Witness ==
    /\ MetarByBboxCall /\ pc = "awaiting"
    /\ call.args.bbox = <<-10125, 20375, -5004, 30006>>
    /\ request.url.uri.bbox = <<2038, -1013, 3001, -500>>

\* The raw items of the decoded body of a successful response.
RawItems ==
    IF response.body.data.isNull \/ response.body.data.items = Undefined
    THEN <<>>
    ELSE response.body.data.items[1]

\* C5: in a successful Aerodrome or Navaid response no returned record comes
\* from a raw item lacking a valid code, every returned record carries a code,
\* and there are no more records than raw items.
C5_OnlyItemsWithCode ==
    /\ (pc = "done" /\ call.module \in AerodromeModules /\ outcome.kind = "returned")
        => LET out == outcome.value
               valid(item) == item.icaoCode \in {"EHAM", "eham", "KJFK", "kjfk"}
           IN  /\ Len(out) <= Len(RawItems)
               /\ Len(out) = Cardinality({i \in DOMAIN RawItems : valid(RawItems[i])})
               /\ \A k \in DOMAIN out : out[k].icao \in {"EHAM", "KJFK"}
               /\ \A k \in DOMAIN out : \A i \in DOMAIN RawItems :
                     ~valid(RawItems[i]) => out[k].name[2] # RawItems[i].name
    /\ (pc = "done" /\ call.module = "navaid" /\ outcome.kind = "returned")
        => LET out == outcome.value
               valid(item) == item.identifier # ""
           IN  /\ Len(out) <= Len(RawItems)
               /\ Len(out) = Cardinality({i \in DOMAIN RawItems : valid(RawItems[i])})
               /\ \A k \in DOMAIN out :
                     /\ out[k].icao # ""
                     /\ \E i \in DOMAIN RawItems :
                           valid(RawItems[i]) /\ out[k].icao = RawItems[i].identifier

C5_Witness ==
    /\ pc = "done" /\ call.module = "aerodrome" /\ outcome.kind = "returned"
    /\ Len(RawItems) = 2 /\ Len(outcome.value) = 1
    /\ RawItems[1].icaoCode = "XX"
    /\ outcome.value[1].name = <<"Capitalized", 2>>

\* A pipeline-level failure has happened: the HTTP function raised, or the
\* response has a non-success status, a non-JSON content type (NOTAM) or a
\* body that does not decode.
PipelineFailure ==
    /\ pc = "done" /\ call.module \in PipelineModules
    /\ \/ fetchResult.kind = "thrown"
       \/ /\ fetchResult.kind = "returned"
          /\ \/ ~Ok(response)
             \/ call.module \in NotamModules /\ ~IsJson(response.contentType)
             \/ ~response.body.decodes

\* C6: every pipeline-level failure reaches the caller as an ApiError with
\* source name, endpoint, request options and cause, and as nothing else.
C6_FailuresAreApiErrors == PipelineFailure => FailedWithApiError

\* The aerodrome items of the response hold a frequency of an invalid type.
HasInvalidFrequency ==
    /\ call.module \in AerodromeModules
    /\ \E i \in DOMAIN RawItems :
          /\ RawItems[i].frequencies # Undefined
          /\ \E j \in DOMAIN RawItems[i].frequencies[1] :
                RawItems[i].frequencies[1][j].type \notin FrequencyTypes

\* The response is a success with a decodable body.
DecodedSuccess ==
    /\ pc = "done" /\ call.module \in PipelineModules
    /\ fetchResult.kind = "returned" /\ Ok(response)
    /\ call.module \in NotamModules => IsJson(response.contentType)
    /\ response.body.decodes

\* C7: with a success status and a decodable body, a malformed item (other
\* than an aerodrome frequency of an invalid type) never makes the call fail.
C7_MalformedItemsNeverFail ==
    (DecodedSuccess /\ (call.module \in NotamModules \/ ~HasInvalidFrequency))
        => outcome.kind = "returned"

\* C8: when the timeout elapses before the transport call completes, the
\* signal handed to the transport is aborted and the fetchApi call fails: it
\* never returns a response and does not stay pending.
C8_TimeoutFails ==
    /\ [](timer = "fired" => (request.signal /\ aborted /\ fetchResult.kind # "returned"))
    /\ (timer = "fired") ~> (fetchResult.kind = "thrown")

C8_Witness ==
    /\ call.module = "http" /\ timer = "fired" /\ pc = "done"
    /\ fetchResult = Thrown(AbortError)

\* C9: whenever the transport resolves with a response, fetchApi resolves
\* with that same response, whatever its status.
C9_StatusAgnostic ==
    (pc = "done" /\ response.status # 0)
        => /\ fetchResult = Returned(response)
           /\ call.module = "http" => outcome = Returned(response)

C9_Witness ==
    /\ call.module = "http" /\ pc = "done"
    /\ response.status = 500 /\ outcome.kind = "returned" /\ outcome.value.status = 500

\* C10: a fetchApi call invokes the transport exactly once and an invocation
\* invokes it at most once, on every path.
C10_SingleRequest ==
    /\ fetcherCalls <= 1
    /\ (pc = "awaiting" \/ fetchResult.kind # "pending") => fetcherCalls = 1

C10_Witness ==
    /\ call.module = "navaid" /\ pc = "done"
    /\ fetchResult.kind = "thrown" /\ fetcherCalls = 1

----------------------------------------------------------------------------
(* Request Gateway: headers *)

\* HTTP header names are case-insensitive: the lower-case form of the names
\* the model uses.
LowerCaseName(n) ==
    CASE n = "User-Agent" -> "user-agent"
      [] n = "Accept" -> "accept"
      [] n = "Content-Type" -> "content-type"
      [] OTHER -> n

IsUserAgent(n) == LowerCaseName(n) = "user-agent"

\* C11: the headers handed to the transport hold every header the caller
\* supplied, with the caller's value, and a User-Agent header; the default
\* User-Agent value is there only when the caller supplied no User-Agent.
C11_HeaderMerge ==
    (call.module = "http" /\ fetcherCalls = 1) =>
        LET sent   == request.headers.list
            caller == call.options.headers.list
        IN  /\ \A n \in DOMAIN caller : n \in DOMAIN sent /\ sent[n] = caller[n]
            /\ \E n \in DOMAIN sent : IsUserAgent(n)
            /\ (\E n \in DOMAIN sent : IsUserAgent(n) /\ sent[n] = DEFAULT_USER_AGENT)
                   => ~ \E n \in DOMAIN caller : IsUserAgent(n)

----------------------------------------------------------------------------
(* The scalar parsers applied on their own *)

\* Date strings given to parseNotamDate
DateStrings ==
    { <<"0", "9", "/", "1", "1", "/", "2", "0", "2", "5", " ", "1", "7", "0", "7">>,   \* the documented example
      <<"9", "/", "1", "1", "/", "2", "0", "2", "5", " ", "1", "7", "0", "7">>,   \* month without zero padding
      <<"0", "9", "/", "1", "/", "2", "0", "2", "5", " ", "1", "7", "0", "7">>,   \* day without zero padding
      <<"0", "9", "/", "1", "1", "/", "2", "5", " ", "1", "7", "0", "7">>,   \* two-digit year
      <<"0", "9", "/", "1", "1", "/", "2", "0", "2", "5", " ", "7", "0", "7">>,   \* three-digit time
      <<"0", "9", "/", "1", "1", "/", "2", "0", "2", "5", " ", " ", "1", "7", "0", "7">>,   \* two spaces
      <<"0", "9", "/", "1", "1", "/", "2", "0", "2", "5", "\t", "1", "7", "0", "7">>,   \* a tab
      <<"0", "9", "/", "1", "1", "/", "2", "0", "2", "5", "1", "7", "0", "7">>,   \* no white space
      <<"0", "9", "/", "1", "1", "/", "2", "0", "2", "5", " ", "1", "7", "0", "7", " ">>,   \* trailing space
      <<" ", "0", "9", "/", "1", "1", "/", "2", "0", "2", "5", " ", "1", "7", "0", "7">>,   \* leading space
      <<"0", "9", "-", "1", "1", "-", "2", "0", "2", "5", " ", "1", "7", "0", "7">>,   \* dashes
      <<"0", "9", "/", "1", "1", "/", "2", "0", "2", "5", " ", "1", "7", ":", "0", "7">>,   \* colon in the time
      <<"2", "0", "2", "5", "-", "0", "9", "-", "1", "1", "T", "1", "7", ":", "0", "7", ":", "0", "0", "Z">>,   \* ISO 8601
      <<"1", "2", "/", "3", "1", "/", "1", "9", "9", "9", " ", "2", "3", "5", "9">>,   \* end of a year
      <<"0", "2", "/", "2", "9", "/", "2", "0", "2", "4", " ", "0", "0", "0", "0">>,   \* leap day
      <<"0", "1", "/", "0", "1", "/", "1", "9", "7", "0", " ", "0", "0", "0", "0">>,   \* the epoch
      <<"0", "2", "/", "3", "0", "/", "2", "0", "2", "4", " ", "1", "2", "0", "0">>,   \* a day past the end of the month
      <<"1", "3", "/", "0", "1", "/", "2", "0", "2", "5", " ", "0", "0", "0", "0">>,   \* month 13
      <<"0", "0", "/", "1", "0", "/", "2", "0", "2", "5", " ", "0", "0", "0", "0">>,   \* month 0
      <<"0", "1", "/", "0", "1", "/", "2", "0", "2", "5", " ", "2", "4", "6", "0">>,   \* hour 24, minute 60
      <<"0", "1", "/", "0", "1", "/", "0", "0", "5", "0", " ", "0", "0", "0", "0">>,   \* a year below 100
      <<>> }   \* empty or absent

ParseNotamDate ==
    /\ pc = "idle"
    /\ \E s \in DateStrings :
        Settle(Call("faa-notam", "parseNotamDate", [dateString |-> s], <<>>, NoOptions),
               Returned(parseNotamDate(s)))

ParseNotamDateOld ==
    /\ pc = "idle"
    /\ \E s \in DateStrings, offset \in LocalOffsets :
        Settle(Call("faa-notam.ts", "parseNotamDate", [dateString |-> s, offset |-> offset],
                    <<>>, NoOptions),
               Returned(parseNotamDateOld(s, offset)))

\* Longitudes as written in a point string: decimal numbers in and out of
\* range, and tokens that are not decimal numbers
LonTokens ==
    { <<"-", "7", "3", ".", "7", "8">>,
      <<"2", "0", "0">>,
      <<"1", "8", "0">>,
      <<"-", "1", "8", "0">>,
      <<"1", "8", "0", ".", "0", "1">>,
      <<"-", "1", "8", "0", ".", "0", "1">>,
      <<"0">>,
      <<"+", "4", ".", "7", "5">>,
      <<".", "5">>,
      <<"-", "0">>,
      <<"5", ".">>,
      <<"1", "e", "2">>,
      <<"x">>,
      <<>> }

\* Latitudes as written in a point string
LatTokens ==
    { <<"4", "0", ".", "6", "5">>,
      <<"9", "0">>,
      <<"-", "9", "0">>,
      <<"9", "0", ".", "0", "1">>,
      <<"-", "9", "0", ".", "5">>,
      <<"0">>,
      <<"4", "0">>,
      <<"+", "9", "0", ".", "0">> }

\* "[lon,lat]"
ArrayForm(lon, lat) == <<"[">> \o lon \o <<",">> \o lat \o <<"]">>

\* "POINT(lon lat)", with the white space between the numbers
WktForm(lon, space, lat) == <<"P", "O", "I", "N", "T", "(">> \o lon \o space \o lat \o <<")">>

\* Strings of neither form, built from the same numbers
MalformedForms(lon, lat) ==
    { <<"[">> \o lon \o <<",", " ">> \o lat \o <<"]">>,
      <<"[">> \o lon \o <<" ">> \o lat \o <<"]">>,
      <<"[">> \o lon \o <<",">> \o lat,
      <<"[">> \o lon \o <<",">> \o lat \o <<",", "0", "]">>,
      lon \o <<",">> \o lat,
      <<"P", "O", "I", "N", "T", " ", "(">> \o lon \o <<" ">> \o lat \o <<")">>,
      <<"p", "o", "i", "n", "t", "(">> \o lon \o <<" ">> \o lat \o <<")">>,
      <<"P", "O", "I", "N", "T", "(">> \o lon \o <<",">> \o lat \o <<")">>,
      <<"P", "O", "I", "N", "T", "(">> \o lon \o lat \o <<")">>,
      <<>> }

\* The arguments of parsePoint: the string, and how it was written
PointInputs ==
    {[pointString |-> ArrayForm(lon, lat), form |-> "array", lon |-> lon, lat |-> lat] :
        lon \in LonTokens, lat \in LatTokens}
    \cup {[pointString |-> WktForm(lon, sp, lat), form |-> "wkt", lon |-> lon, lat |-> lat] :
        lon \in LonTokens, lat \in LatTokens, sp \in {<<" ">>, <<" ", "\t">>}}
    \cup UNION {{[pointString |-> s, form |-> "malformed", lon |-> p[1], lat |-> p[2]] :
                    s \in MalformedForms(p[1], p[2])} : p \in LonTokens \X LatTokens}

ParsePoint ==
    /\ pc = "idle"
    /\ \E input \in PointInputs :
        Settle(Call("faa-notam", "parsePoint", input, <<>>, NoOptions),
               Returned(parsePoint(input.pointString)))

\* Pieces of the texts given to parseText
TextPieces ==
    { <<"R", "W", "Y">>,   \* a key
      <<" ", "C", "L", "S", "D">>,   \* a space and a key
      <<"t", "w", "y", "\n">>,   \* a key in lower case and a newline
      <<"U", "/">>,   \* the start of the key U/S
      <<"S">>,   \* the end of the key U/S
      <<"O", "P", "R">>,   \* a key whose expansion holds a slash
      <<" ", "T", "R", "U", "E", " ", " ">>,   \* the key that expands to itself, in spaces
      <<"v">>,   \* a letter
      <<"U+0131", "s">> }   \* a dotless i and a letter

RECURSIVE Concat(_)
Concat(pieces) == IF pieces = <<>> THEN <<>> ELSE Head(pieces) \o Concat(Tail(pieces))

\* The texts given to parseText: up to MaxPieces pieces in a row
Texts == {Concat(pieces) : pieces \in SeqsUpTo(TextPieces, MaxPieces)}

\* Other orders of applying the entries: the last entry first, and the
\* entries at even places before those at odd places
ReversedOrder == [i \in 1..Len(Abbreviations) |-> Len(Abbreviations) + 1 - i]
EvensFirstOrder ==
    [i \in 1..Len(Abbreviations) |->
        IF i <= Len(Abbreviations) \div 2 THEN 2 * i
        ELSE 2 * (i - Len(Abbreviations) \div 2) - 1]
Orders == {ReversedOrder, EvensFirstOrder}

ParseText ==
    /\ pc = "idle"
    /\ \E text \in Texts :
        Settle(Call("faa-notam", "parseText", [text |-> text], <<>>, NoOptions),
               Returned(parseText(text)))

ParseTextOld ==
    /\ pc = "idle"
    /\ \E text \in Texts :
        Settle(Call("faa-notam.ts", "parseText", [text |-> text], <<>>, NoOptions),
               Returned(parseTextOld(text)))

\* parseText with its loop running over the entries in another order
ParseTextInOrder ==
    /\ pc = "idle"
    /\ \E text \in Texts, order \in Orders :
        Settle(Call("faa-notam", "parseTextInOrder", [text |-> text, order |-> order],
                    <<>>, NoOptions),
               Returned(Normalize(text, Abbreviations, order)))

\* --- ApiError.getDetailedMessage ---

\* An argument the constructor was not given.
NotGiven == [type |-> "undefined"]
NumberCause(n) == [type |-> "number", value |-> n]

\* if (x) for the values a method, a timeout and a cause can be
TruthyMethod(method) == method \notin {"undefined", ""}
TruthyCause(cause) ==
    CASE cause.type = "undefined" -> FALSE
      [] cause.type = "string"    -> cause.text # <<>>
      [] cause.type = "number"    -> cause.value # 0
      [] OTHER                    -> TRUE

\* cause instanceof Error ? cause.message : String(cause)
CauseText(cause) ==
    CASE cause.type = "string" -> cause.text
      [] cause.type = "number" -> <<cause.value>>
      [] OTHER                 -> cause.message

\* `${serviceName} API request failed for endpoint: ${endpoint}`
MessageOf(error) == <<error.serviceName, "API request failed for endpoint:", error.endpoint>>

\* Mutant of getDetailedMessage: the cause is written before the timeout.
getDetailedMessageCauseFirst(error) ==
    <<MessageOf(error)>>
      \o (IF error.requestOptions # NotGiven /\ TruthyMethod(error.requestOptions.method)
          THEN <<<<"Method", error.requestOptions.method>>>> ELSE <<>>)
      \o (IF TruthyCause(error.cause) THEN <<<<"Cause", CauseText(error.cause)>>>> ELSE <<>>)
      \o (IF error.requestOptions # NotGiven /\ Truthy(error.requestOptions.timeout)
          THEN <<<<"Timeout", error.requestOptions.timeout[1], "ms">>>> ELSE <<>>)

\* getDetailedMessage: the lines of the text, in order.
getDetailedMessage(error) ==
    <<MessageOf(error)>>
      \o (IF error.requestOptions # NotGiven /\ TruthyMethod(error.requestOptions.method)
          THEN <<<<"Method", error.requestOptions.method>>>> ELSE <<>>)
      \o (IF error.requestOptions # NotGiven /\ Truthy(error.requestOptions.timeout)
          THEN <<<<"Timeout", error.requestOptions.timeout[1], "ms">>>> ELSE <<>>)
      \o (IF TruthyCause(error.cause) THEN <<<<"Cause", CauseText(error.cause)>>>> ELSE <<>>)

\* The errors whose detailed message is asked for.
DetailedErrors ==
    {ApiError("METAR", "https://aviationweather.gov/api/data/metar", o, c) :
        o \in {NotGiven} \cup {Options(m, NoHeaders, "undefined", Undefined, t) :
                                  m \in {"undefined", "", "GET", "POST"},
                                  t \in {Undefined, <<0>>, <<5000>>}},
        c \in {NotGiven, Str(<<>>), Str(<<"HTTP", 404, "Not Found">>),
               NumberCause(0), NumberCause(7),
               PlainError(<<"fetch failed">>), PlainError(<<>>), AbortError}}

\* The text is asked for `calls` times in a row; the method assigns to no
\* field, so the error is after each call what it was before.
GetDetailedMessage ==
    /\ pc = "idle"
    /\ \E error \in DetailedErrors, calls \in 1..2 :
        Settle(Call("http", "getDetailedMessage", [error |-> error, calls |-> calls],
                    <<>>, NoOptions),
               Returned([n \in 1..calls |-> getDetailedMessage(error)]))

ParserNext ==
    \/ ParseNotamDate
    \/ ParseNotamDateOld
    \/ ParsePoint
    \/ ParseText
    \/ ParseTextOld
    \/ ParseTextInOrder
    \/ GetDetailedMessage
    \/ Return

ParserSpec == Init /\ [][ParserNext]_vars

----------------------------------------------------------------------------
(* Properties of the scalar parsers *)

AllDigits(s) == \A i \in DOMAIN s : IsDigit(s[i])

\* MM/DD/YYYY, white space, HHMM
HasDateShape(s) ==
    /\ Len(s) >= 15
    /\ AllDigits(SubSeq(s, 1, 2)) /\ s[3] = "/"
    /\ AllDigits(SubSeq(s, 4, 5)) /\ s[6] = "/"
    /\ AllDigits(SubSeq(s, 7, 10))
    /\ \A i \in 11..(Len(s) - 4) : s[i] \in WhiteSpace
    /\ AllDigits(SubSeq(s, Len(s) - 3, Len(s)))

DateFields(s) ==
    [month   |-> ParseInt(SubSeq(s, 1, 2)),
     day     |-> ParseInt(SubSeq(s, 4, 5)),
     year    |-> ParseInt(SubSeq(s, 7, 10)),
     hours   |-> ParseInt(SubSeq(s, Len(s) - 3, Len(s) - 2)),
     minutes |-> ParseInt(SubSeq(s, Len(s) - 1, Len(s)))]

IsLeapYear(y) == y % 4 = 0 /\ (y % 100 # 0 \/ y % 400 = 0)

DaysInMonth(y, m) ==
    IF m = 2 THEN (IF IsLeapYear(y) THEN 29 ELSE 28)
    ELSE IF m \in {4, 6, 9, 11} THEN 30 ELSE 31

\* The fields name a date and time of the calendar.
IsCalendarDate(f) ==
    /\ f.month \in 1..12 /\ f.day \in 1..DaysInMonth(f.year, f.month)
    /\ f.hours \in 0..23 /\ f.minutes \in 0..59

\* The instant, in minutes since the epoch, that the fields name in UTC.
UtcInstant(f) ==
    (DaysFromCivil(f.year, f.month) + f.day - 1) * 1440 + f.hours * 60 + f.minutes

\* C12: a string of the shape MM/DD/YYYY HHMM parses to the instant its
\* fields name in UTC ("09/11/2025 1707" to 2025-09-11T17:07Z, which is
\* minute 29293507 of the epoch); every other string parses to absent; the
\* parser never raises.
C12_DateParser ==
    (pc = "done" /\ call.op = "parseNotamDate") =>
        LET s == call.args.dateString IN
        /\ outcome.kind = "returned"
        /\ HasDateShape(s) =>
               /\ outcome.value # Undefined
               /\ IsCalendarDate(DateFields(s)) => outcome.value = <<UtcInstant(DateFields(s))>>
        /\ ~ HasDateShape(s) => outcome.value = Undefined
        /\ s = <<"0", "9", "/", "1", "1", "/", "2", "0", "2", "5", " ", "1", "7", "0", "7">> => outcome.value = <<29293507>>

\* A decimal number as the point parser's callers write it: an optional
\* sign, then digits, or digits (possibly none), a dot and digits.
IsDecimalToken(t) ==
    LET body == IF t # <<>> /\ t[1] \in {"+", "-"} THEN Tail(t) ELSE t
    IN  \E k \in 0..Len(body) :
            /\ AllDigits(SubSeq(body, 1, k))
            /\ \/ k = Len(body) /\ k > 0
               \/ /\ k + 1 < Len(body)
                  /\ body[k + 1] = "."
                  /\ AllDigits(SubSeq(body, k + 2, Len(body)))

\* n1 <= x <= n2 for a decimal x
DecimalWithin(x, n1, n2) ==
    n1 * Pow10(x.scale) <= x.num /\ x.num <= n2 * Pow10(x.scale)

\* What the point parser is to give for a string written from lon and lat.
ExpectedPoint(input) ==
    IF /\ input.form \in {"array", "wkt"}
       /\ IsDecimalToken(input.lon) /\ IsDecimalToken(input.lat)
       /\ DecimalWithin(ParseFloat(input.lat), -90, 90)
       /\ DecimalWithin(ParseFloat(input.lon), -180, 180)
    THEN <<[latitude |-> ParseFloat(input.lat), longitude |-> ParseFloat(input.lon)]>>
    ELSE Undefined

\* C13: "[lon,lat]" and "POINT(lon lat)" parse to the same result, which is
\* the pair when latitude is in [-90, 90] and longitude in [-180, 180] and
\* absent otherwise; a malformed string parses to absent; nothing is thrown.
C13_PointParser ==
    (pc = "done" /\ call.op = "parsePoint") =>
        /\ outcome = Returned(ExpectedPoint(call.args))
        /\ call.args.form = "array" =>
               outcome.value = parsePoint(WktForm(call.args.lon, <<" ">>, call.args.lat))
        /\ call.args.form = "wkt" =>
               outcome.value = parsePoint(ArrayForm(call.args.lon, call.args.lat))
        /\ call.args.pointString = <<"[", "2", "0", "0", ",", "4", "0", "]">> => outcome.value = Undefined

C13_Witness ==
    /\ pc = "done" /\ call.op = "parsePoint"
    /\ call.args.pointString = <<"P", "O", "I", "N", "T", "(", "-", "7", "3", ".", "7", "8", " ", "4", "0", ".", "6", "5", ")">>
    /\ outcome = Returned(<<[latitude  |-> [num |-> 4065, scale |-> 2],
                             longitude |-> [num |-> -7378, scale |-> 2]]>>)

\* C14: the text normalizer is idempotent: normalizing its own output gives
\* that output again.
C14_ParseTextIdempotent ==
    (pc = "done" /\ call.op = "parseText") =>
        /\ outcome.kind = "returned"
        /\ call.module = "faa-notam" => parseText(outcome.value) = outcome.value
        /\ call.module = "faa-notam.ts" => parseTextOld(outcome.value) = outcome.value

\* No whole word of an entry's expansion matches the key of another entry.
NoExpansionHoldsAnotherKey ==
    \A i, j \in 1..Len(Abbreviations) :
        i # j => \A p \in 1..Len(Abbreviations[i].expansion) :
                    ~ MatchAt(Fold(Abbreviations[i].expansion), p, Fold(Abbreviations[j].key))

\* C15: the output of the text normalizer does not depend on the order in
\* which the entries are applied, and no whole word of an entry's expansion
\* matches the key of another entry.
C15_OrderIndependent ==
    /\ NoExpansionHoldsAnotherKey
    /\ (pc = "done" /\ call.op = "parseTextInOrder") =>
           outcome = Returned(parseText(call.args.text))

C15_Witness ==
    /\ pc = "done" /\ call.op = "parseTextInOrder"
    /\ call.args.order = ReversedOrder
    /\ call.args.text = <<"R", "W", "Y", " ", "C", "L", "S", "D">>
    /\ outcome = Returned(<<"R", "U", "N", "W", "A", "Y", " ", "C", "L", "O", "S", "E", "D">>)

----------------------------------------------------------------------------
(* The NOTAM pipeline *)

\* The upstream answered a NOTAM call with a success status.
NotamAnswered ==
    /\ pc = "done" /\ call.module \in NotamModules
    /\ fetchResult.kind = "returned" /\ Ok(response)

\* The NOTAM call took in a decoded JSON body.
NotamDecoded ==
    /\ NotamAnswered
    /\ response.contentType \in {"application/json", "application/json; charset=utf-8"}
    /\ response.body.decodes

BodyRecords ==
    LET data == response.body.data IN
    IF data.isNull THEN <<>>
    ELSE IF data.notamList.kind = "array" THEN data.notamList.list
    ELSE IF \E m \in {data.record.icaoMessage, data.record.traditionalMessageFrom4thWord,
                      data.record.traditionalMessage} : m # <<>>
    THEN <<data.record>>
    ELSE <<>>

\* The Notam the called variant makes of a record.
NotamOf(record) ==
    IF call.module = "faa-notam" THEN Transformed[record]
    ELSE TransformedOld[record][call.args.offset]

\* C17: by transaction id, every successful JSON response gives either one
\* Notam, made of the first record of the decoded body, or null; null exactly
\* when the body holds no record, and never an error.
C17_TransactionIdOneOrNull ==
    (NotamDecoded /\ call.op = "getNotamsByTransactionId") =>
        /\ outcome.kind = "returned"
        /\ (outcome.value = Undefined) <=> (Len(BodyRecords) = 0)
        /\ Len(BodyRecords) > 0 => outcome.value = <<NotamOf(BodyRecords[1])>>

\* C18: a decoded body with an array under notamList gives one Notam per
\* element, in order; otherwise a body with at least one message field gives
\* exactly one Notam; every other body gives the empty list; none is an error.
C18_BodyDecoding ==
    (NotamDecoded /\ call.op = "getNotamsByIcao") =>
        LET data == response.body.data IN
        /\ outcome.kind = "returned"
        /\ outcome.value = [i \in DOMAIN BodyRecords |-> NotamOf(BodyRecords[i])]
        /\ (~data.isNull /\ data.notamList.kind = "array")
               => Len(outcome.value) = Len(data.notamList.list)
        /\ (~data.isNull /\ data.notamList.kind # "array")
               => Len(outcome.value) = IF data.record \in {r \in NotamRecords :
                                              r.icaoMessage # <<>> \/ r.traditionalMessage # <<>>
                                                \/ r.traditionalMessageFrom4thWord # <<>>}
                                        THEN 1 ELSE 0
        /\ data.isNull => outcome.value = <<>>

\* The Notams a call returned, as a list.
ReturnedNotams ==
    IF call.op = "getNotamsByIcao" THEN outcome.value
    ELSE IF outcome.value = Undefined THEN <<>> ELSE <<outcome.value[1]>>

NotamsReturned ==
    /\ NotamDecoded /\ call.op \in {"getNotamsByIcao", "getNotamsByTransactionId"}
    /\ outcome.kind = "returned"

\* C19: the coordinates of a Notam are the point parsed from notamGeometry;
\* when that gives no point, they are the point parsed from mapPointer; they
\* are absent only when neither field gives a valid point.
C19_CoordinatesFallBack ==
    NotamsReturned =>
        \A i \in DOMAIN ReturnedNotams :
            LET record    == BodyRecords[i]
                primary   == parsePoint(record.notamGeometry)
                secondary == parsePoint(record.mapPointer)
            IN  /\ ReturnedNotams[i].coordinates =
                       IF primary # Undefined THEN primary ELSE secondary
                /\ ReturnedNotams[i].coordinates = Undefined
                       => (primary = Undefined /\ secondary = Undefined)

\* What the date parser of the called variant makes of a date field.
ParsedDate(dateString) ==
    IF call.module = "faa-notam" THEN parseNotamDate(dateString)
    ELSE parseNotamDateOld(dateString, call.args.offset)

\* The date a Notam holds for a date field that must be present.
PresentDate(dateString) ==
    IF ParsedDate(dateString) # Undefined
    THEN [now |-> FALSE, minutes |-> ParsedDate(dateString)[1]]
    ELSE [now |-> TRUE, minutes |-> 0]

\* C20: no record is dropped for a missing or unparsable date.  Every
\* returned Notam has schedule.effectiveFrom and issued: the parsed startDate
\* and issueDate, or the current time when they do not parse.
\* schedule.effectiveUntil is the parsed endDate or absent, never the current
\* time.
C20_DatesDefaultToNow ==
    NotamsReturned =>
        /\ call.op = "getNotamsByIcao" => Len(ReturnedNotams) = Len(BodyRecords)
        /\ \A i \in DOMAIN ReturnedNotams :
               LET record == BodyRecords[i]
                   notam  == ReturnedNotams[i]
               IN  /\ notam.schedule.effectiveFrom = PresentDate(record.startDate)
                   /\ notam.issued = PresentDate(record.issueDate)
                   /\ notam.schedule.effectiveUntil = ParsedDate(record.endDate)

C20_Witness ==
    /\ NotamsReturned /\ call.module = "faa-notam" /\ call.op = "getNotamsByIcao"
    /\ Len(BodyRecords) = 2
    /\ BodyRecords[1].startDate = Permanent /\ BodyRecords[1].endDate = Permanent
    /\ BodyRecords[1].issueDate = <<>>
    /\ BodyRecords[2].startDate = StartDate /\ BodyRecords[2].endDate = EndDate
    /\ outcome.value[1].schedule.effectiveFrom.now /\ outcome.value[1].issued.now
    /\ outcome.value[1].schedule.effectiveUntil = Undefined
    /\ ~outcome.value[2].schedule.effectiveFrom.now
    /\ outcome.value[2].schedule.effectiveUntil # Undefined

----------------------------------------------------------------------------
(* Validation, failures and options of the pipelines *)

\* C21: every METAR call, by codes or by box, that carries a date outside
\* the window of the last 30 days fails before the HTTP function is invoked,
\* whatever its other arguments are, an empty list of codes included.
C21_DateOutsideWindowFails ==
    (call.module \in MetarModules /\ call.args.date # Undefined
        /\ (call.args.date[1] < -30 \/ call.args.date[1] > 0))
        => (pc = "done" /\ outcome.kind = "thrown" /\ fetcherCalls = 0)

\* A kept aerodrome item of the decoded response holds a frequency whose
\* type is outside the enumeration.
RejectedFrequency ==
    /\ pc = "done" /\ call.module \in AerodromeModules
    /\ fetchResult.kind = "returned" /\ Ok(response) /\ response.body.decodes
    /\ ~response.body.data.isNull /\ response.body.data.items # Undefined
    /\ \E i \in DOMAIN response.body.data.items[1] :
          LET item == response.body.data.items[1][i]
          IN  /\ item.icaoCode \in {"EHAM", "eham", "KJFK", "kjfk"}
              /\ item.frequencies # Undefined
              /\ \E k \in DOMAIN item.frequencies[1] : item.frequencies[1][k].type \notin {0, 1}

\* C22: when a frequency of an item with a valid ICAO code has a type the
\* validator rejects, the whole aerodrome call fails with an ApiError: no
\* list, not even a partial one, is returned.
C22_InvalidFrequencyFailsWithApiError ==
    RejectedFrequency => (outcome.kind = "thrown" /\ outcome.error.type = "ApiError")

\* The timeout and the cache hint of each source.
SourceDefaults ==
    CASE call.module \in AerodromeModules \cup {"navaid"} -> [timeout |-> 10000, cacheTtl |-> 604800]
      [] call.module \in MetarModules -> [timeout |-> 5000, cacheTtl |-> 60]
      [] call.module \in NotamModules -> [timeout |-> 5000, cacheTtl |-> 86400]

\* C23: a pipeline call whose caller supplied a timeout issues its request
\* through the gateway with that timeout; without one, the request is issued
\* with the default timeout of the source, and in both cases with the
\* source's cache hint.
C23_TimeoutOverride ==
    (call.module \in PipelineModules /\ fetcherCalls = 1) =>
        /\ call.apiOptions.cf = <<SourceDefaults.cacheTtl>>
        /\ call.apiOptions.timeout =
               IF call.entry.timeout # Undefined THEN call.entry.timeout
               ELSE <<SourceDefaults.timeout>>

----------------------------------------------------------------------------
(* Invocations in flight side by side *)

\* Every fetchApi call builds its own AbortController and timer in its own
\* activation; a slot holds what one activation holds.

\* The invocations started side by side: the gateway without and with a
\* timeout, and a pipeline call (which always sets a timeout).
ConcurrentCalls ==
    {[call |-> Call("http", "fetchApi", <<>>, <<>>, o), baseUrl |-> "https://example.org/",
      apiOptions |-> o] :
        o \in {Options("undefined", NoHeaders, "undefined", Undefined, t) :
                  t \in {Undefined, <<5000>>}}}
      \cup {[call |-> Call("aviationweather2", "getMetarStationsByIcao",
                           [icao |-> <<icao>>, date |-> Undefined],
                           MetarIdsUri(<<normalizeICAO(icao)>>, Undefined), NoOptions),
             baseUrl |-> MetarEndpoint(MetarIdsUri(<<normalizeICAO(icao)>>, Undefined)),
             apiOptions |-> MetarApiOptions] : icao \in {"eham"}}

\* The answers of the transport to an invocation in a slot: every status,
\* with a body that does not decode or an empty one.
ConcurrentResponses(c) ==
    {r \in ResponsesFor(c) : ~r.body.decodes \/ r.body.data = NullData}

\* Invocation i starts: fetchApi hands the request to the fetcher and is
\* suspended on it.
StartCall(i) ==
    /\ slots[i].pc = "idle"
    /\ \E c \in ConcurrentCalls :
          slots' = [slots EXCEPT ![i] =
                       [pc |-> "awaiting",
                        call |-> [c.call EXCEPT !.apiOptions = c.apiOptions],
                        request |-> FetchApiRequest(c.baseUrl, c.apiOptions),
                        timer |-> FetchApiTimer(c.apiOptions),
                        aborted |-> FALSE,
                        response |-> NoResponse, fetchResult |-> Pending, outcome |-> Pending]]
    /\ UNCHANGED <<pc, call, request, fetcherCalls, timer, aborted, response, fetchResult, outcome>>

\* The fetcher's promise of invocation i has settled as s.
CallSettled(i, s) ==
    /\ slots' = [slots EXCEPT ![i] =
                    [@ EXCEPT !.pc = "done",
                              !.timer = ClearTimeout(@),
                              !.response = IF s.kind = "resolved" THEN s.response ELSE NoResponse,
                              !.fetchResult = FetchApiSettle(s),
                              !.outcome = Continue(slots[i].call, FetchApiSettle(s))]]
    /\ UNCHANGED <<pc, call, request, fetcherCalls, timer, aborted, response, fetchResult, outcome>>

CallResolves(i) ==
    /\ slots[i].pc = "awaiting"
    /\ ~(slots[i].request.signal /\ slots[i].aborted)
    /\ \E resp \in ConcurrentResponses(slots[i].call) :
          CallSettled(i, [kind |-> "resolved", response |-> resp])

CallRejects(i) ==
    /\ slots[i].pc = "awaiting"
    /\ \E error \in TransportErrors : CallSettled(i, [kind |-> "rejected", error |-> error])

\* Mutant of CallTimerFires: one controller is shared by all invocations.
CallTimerFiresShared(i) ==
    /\ slots[i].timer = "armed"
    /\ slots' = [j \in DOMAIN slots |->
                    IF j = i THEN [slots[j] EXCEPT !.timer = "fired", !.aborted = TRUE]
                    ELSE [slots[j] EXCEPT !.aborted = TRUE]]
    /\ UNCHANGED <<pc, call, request, fetcherCalls, timer, aborted, response, fetchResult, outcome>>

\* The timeout of invocation i elapses: its callback aborts its controller.
CallTimerFires(i) ==
    /\ slots[i].timer = "armed"
    /\ slots' = [slots EXCEPT ![i] = [@ EXCEPT !.timer = "fired", !.aborted = TRUE]]
    /\ UNCHANGED <<pc, call, request, fetcherCalls, timer, aborted, response, fetchResult, outcome>>

\* The transport rejects the request of invocation i, whose signal has been
\* aborted.
CallAborts(i) ==
    /\ slots[i].pc = "awaiting"
    /\ slots[i].request.signal /\ slots[i].aborted
    /\ CallSettled(i, [kind |-> "rejected", error |-> AbortError])

\* The caller of invocation i has its result.
CallReturns(i) ==
    /\ slots[i].pc = "done"
    /\ slots' = [slots EXCEPT ![i] = IdleSlot]
    /\ UNCHANGED <<pc, call, request, fetcherCalls, timer, aborted, response, fetchResult, outcome>>

ConcurrentNext ==
    \E i \in 1..MaxCalls :
        \/ StartCall(i)
        \/ CallResolves(i)
        \/ CallRejects(i)
        \/ CallTimerFires(i)
        \/ CallAborts(i)
        \/ CallReturns(i)

ConcurrentSpec == Init /\ [][ConcurrentNext]_vars

\* C24: in every interleaving of invocations in flight side by side, the
\* outcome of each is determined by its own arguments and by what the
\* transport answered to it; a timeout that fires aborts the request of its
\* own invocation and of no other.
C24_ConcurrentCallsIndependent ==
    \A i \in 1..MaxCalls :
        LET slot == slots[i] IN
        /\ slot.aborted => slot.timer = "fired"
        /\ slot.pc = "done" =>
              /\ slot.outcome = Continue(slot.call, slot.fetchResult)
              /\ slot.fetchResult.kind = "returned" => slot.fetchResult.value = slot.response
              /\ slot.fetchResult = Thrown(AbortError) => slot.timer = "fired"

\* The timeout of invocation 1 has fired while invocation 2 is in flight
\* with its own timer armed; invocation 2 is not aborted.
C24_Witness ==
    /\ slots[1].pc = "awaiting" /\ slots[1].timer = "fired" /\ slots[1].aborted
    /\ slots[2].pc = "awaiting" /\ slots[2].timer = "armed" /\ ~slots[2].aborted
    /\ slots[2].request.signal

----------------------------------------------------------------------------
(* Elevation and runway dimensions *)

\* The raw item a returned aerodrome record was built from: records carry
\* the position of their item in their name.
ItemOf(record) == RawItems[record.name[2]]

\* C25: the elevation of a returned aerodrome is present exactly when the
\* elevation of its item is in metres (unit 0) above mean sea level
\* (referenceDatum 1), and is then the value in feet; the length and the
\* width of a returned runway are present exactly when the item's is in
\* metres, and are then the item's value unchanged.
C25_ElevationAndDimensions ==
    (pc = "done" /\ call.module \in AerodromeModules /\ outcome.kind = "returned") =>
        \A k \in DOMAIN outcome.value :
            LET record == outcome.value[k]
                item == ItemOf(record)
                metric == /\ item.elevation # Undefined
                          /\ item.elevation[1].unit = 0
                          /\ item.elevation[1].referenceDatum = 1
            IN  /\ (record.elevation # Undefined) <=> metric
                /\ metric => record.elevation[1] = item.elevation[1].value * 328084
                /\ \A r \in DOMAIN record.runways :
                      LET runway == record.runways[r]
                          dimension == item.runways[1][r].dimension
                      IN  /\ (runway.length # Undefined)
                               <=> (dimension # Undefined /\ dimension[1].length.unit = 0)
                          /\ runway.length # Undefined
                               => runway.length[1] = dimension[1].length.value
                          /\ (runway.width # Undefined)
                               <=> (dimension # Undefined /\ dimension[1].width.unit = 0)
                          /\ runway.width # Undefined
                               => runway.width[1] = dimension[1].width.value

\* Two aerodromes are returned: one whose elevation is in metres above the
\* ground and whose runway has a length in metres and a width in feet, and
\* one at 0 m above mean sea level.
C25_Witness ==
    /\ pc = "done" /\ call.module = "aerodrome" /\ outcome.kind = "returned"
    /\ Len(outcome.value) = 2
    /\ ItemOf(outcome.value[1]).elevation = ElevationItem(4, 0, 0)
    /\ outcome.value[1].elevation = Undefined
    /\ outcome.value[1].runways[1].length = <<3800>>
    /\ outcome.value[1].runways[1].width = Undefined
    /\ outcome.value[2].elevation = <<0>>

----------------------------------------------------------------------------
(* The detailed message of an ApiError *)

DetailedMessageCall == pc = "done" /\ call.op = "getDetailedMessage"

\* The labels of the lines of a text after its first line.
LabelsOf(text) == [i \in 1..(Len(text) - 1) |-> text[i + 1][1]]

\* C26: the detailed message of an ApiError is its message line, followed by
\* a Method line exactly when a request method is set, a Timeout line exactly
\* when a timeout is set and a Cause line exactly when a cause is set, in that
\* order ("set": given and neither empty nor 0); every call returns the same
\* text and the error is left as it was.
C26_DetailedMessage ==
    DetailedMessageCall =>
        LET error == call.args.error
            options == error.requestOptions
            given == options # [type |-> "undefined"]
            hasLine(label) ==
                CASE label = "Method"  -> given /\ options.method \in {"GET", "POST"}
                  [] label = "Timeout" -> given /\ options.timeout = <<5000>>
                  [] label = "Cause"   -> error.cause.type \in {"Error", "AbortError"}
                                            \/ error.cause = Str(<<"HTTP", 404, "Not Found">>)
                                            \/ error.cause = NumberCause(7)
        IN  /\ error \in DetailedErrors
            /\ Len(outcome.value) = call.args.calls
            /\ \A n \in DOMAIN outcome.value :
                  LET text == outcome.value[n] IN
                  /\ text = outcome.value[1]
                  /\ text[1] = <<"METAR", "API request failed for endpoint:",
                                 "https://aviationweather.gov/api/data/metar">>
                  /\ LabelsOf(text) = SelectSeq(<<"Method", "Timeout", "Cause">>, hasLine)
                  /\ \A i \in 2..Len(text) :
                        /\ text[i][1] = "Method" => text[i][2] = options.method
                        /\ text[i][1] = "Timeout" => text[i] = <<"Timeout", 5000, "ms">>

\* The message of an error with a method, a timeout and a cause has been
\* asked for twice: four lines each time.
C26_Witness ==
    /\ DetailedMessageCall /\ call.args.calls = 2
    /\ call.args.error.cause = PlainError(<<"fetch failed">>)
    /\ Len(outcome.value[2]) = 4
    /\ outcome.value[2][2] = <<"Method", "POST">>
    /\ outcome.value[2][3] = <<"Timeout", 5000, "ms">>
    /\ outcome.value[2][4] = <<"Cause", <<"fetch failed">>>>

----------------------------------------------------------------------------
(* Lists and their order *)

\* The operations that look one record up and return it or null.
SingleRecordOps == {"getNotamsByTransactionId", "getRawNotamsByTransactionId"}

\* A pipeline operation has completed successfully.
PipelineSucceeded ==
    pc = "done" /\ call.module \in PipelineModules /\ outcome.kind = "returned"

\* The raw items of the decoded body the records are made of.
SourceItems ==
    IF response = NoResponse THEN <<>>      \* no request was made
    ELSE IF call.module \in NotamModules THEN BodyRecords
    ELSE RawItems

\* The places among the raw items a returned record can stem from.
Origins(record) ==
    {i \in DOMAIN SourceItems :
        CASE call.module \in AerodromeModules -> record.name = <<"Capitalized", i>>
          [] call.module \in MetarModules     -> record.tafRaw = i
          [] call.module = "navaid" ->
                /\ record.icao = SourceItems[i].identifier
                /\ SourceItems[i].hasName => record.name = <<"name", i>>
          [] call.op = "getRawNotamsByIcao"   -> record = SourceItems[i]
          [] OTHER -> ~SourceItems[i].isNull /\ record = NotamOf(SourceItems[i])}

\* The returned records stem from raw items at increasing places.
InRawOrder(records) ==
    \E places \in [DOMAIN records -> DOMAIN SourceItems] :
        /\ \A k \in DOMAIN records : places[k] \in Origins(records[k])
        /\ \A j, k \in DOMAIN records : j < k => places[j] < places[k]

\* What the claim says of a successful operation that returns a list.
ListInRawOrder ==
    /\ InRawOrder(outcome.value)
    /\ SourceItems = <<>> => outcome.value = <<>>

\* C27 as stated, of every pipeline operation: a successful one returns a
\* list, never null, whose records are in the order of the raw items, and
\* the empty list when the item collection is absent or empty.
C27_EveryOperationReturnsList ==
    PipelineSucceeded =>
        IF call.op \in SingleRecordOps THEN outcome.value # Undefined
        ELSE ListInRawOrder

\* C27, amended: every pipeline operation other than the two look-ups by
\* transaction id, when it completes successfully, returns a list whose
\* records are in the relative order of the raw items they were mapped from,
\* and the empty list when the item collection is absent or empty; a look-up
\* by transaction id returns null exactly when there is no first record.
C27_ListOperationsReturnOrderedLists ==
    PipelineSucceeded =>
        IF call.op \in SingleRecordOps
        THEN (outcome.value = Undefined) <=> (SourceItems = <<>> \/ SourceItems[1].isNull)
        ELSE ListInRawOrder

\* Two raw aerodrome items with different codes are both returned, the
\* first one first.
C27_Witness ==
    /\ PipelineSucceeded /\ call.module = "aerodrome"
    /\ Len(RawItems) = 2 /\ RawItems[1].icaoCode = "KJFK" /\ RawItems[2].icaoCode = "eham"
    /\ Len(outcome.value) = 2
    /\ outcome.value[1].icao = "KJFK" /\ outcome.value[2].icao = "EHAM"

----------------------------------------------------------------------------
(* The cause of a failure by status *)

\* A pipeline call was answered with a non-success status.
AnsweredWithFailureStatus ==
    /\ pc = "done" /\ call.module \in PipelineModules
    /\ fetchResult.kind = "returned" /\ ~Ok(response)

\* C28: the ApiError a pipeline raises for a non-success HTTP status has the
\* description of the status as its direct cause, and never another ApiError
\* around that description.
C28_StatusIsDirectCause ==
    AnsweredWithFailureStatus =>
        /\ outcome.kind = "thrown" /\ outcome.error.type = "ApiError"
        /\ outcome.error.cause.type # "ApiError"
        /\ call.module \in {"aerodrome", "aviationweather", "faa-notam"}
              => outcome.error.cause = Str(<<"HTTP", response.status, response.statusText>>)

----------------------------------------------------------------------------
(* The timer of the gateway *)

\* The gateway has handed a request to the fetcher in this invocation.
Requested == pc \in {"awaiting", "done"} /\ fetcherCalls > 0

\* C29: with a timeout, the timer of fetchApi is cancelled once the transport
\* call has settled, so that the abort is never fired after the call has
\* completed: a timer is armed only while the call is in flight, and the
\* signal is aborted only by a timer that fired.  With no timeout, or a
\* timeout of 0, the request carries no abort signal and no timer is started.
C29_TimerCleanup ==
    /\ timer = "armed" => pc = "awaiting"
    /\ aborted => timer = "fired"
    /\ Requested =>
          IF call.apiOptions.timeout \in {Undefined, <<0>>}
          THEN ~request.signal /\ timer = "none" /\ ~aborted
          ELSE request.signal /\ timer \in {"armed", "cleared", "fired"}
    /\ (Requested /\ pc = "done" /\ call.apiOptions.timeout \notin {Undefined, <<0>>})
          => timer \in {"cleared", "fired"}

\* A gateway call with a timeout has resolved before the timeout elapsed:
\* its timer is cancelled and its signal was never aborted.
C29_Witness ==
    /\ pc = "done" /\ call.module = "http" /\ call.apiOptions.timeout = <<5000>>
    /\ fetchResult.kind = "returned" /\ timer = "cleared" /\ ~aborted

----------------------------------------------------------------------------
(* Raw and transformed NOTAM operations *)

\* What operation `op` of the current NOTAM variant returns on the response
\* the invocation has received.
NotamOperation(op) == Continue([call EXCEPT !.op = op], fetchResult)

\* C30: on the same decoded body, getRawNotamsByIcao and getNotamsByIcao
\* return lists of equal length, the raw field of the i-th Notam being the
\* icaoMessage of the i-th raw record, and getRawNotamsByTransactionId
\* returns null exactly when getNotamsByTransactionId does.
C30_RawAndTransformedAgree ==
    (NotamDecoded /\ call.module = "faa-notam") =>
        LET raws == NotamOperation("getRawNotamsByIcao")
            notams == NotamOperation("getNotamsByIcao")
            raw == NotamOperation("getRawNotamsByTransactionId")
            notam == NotamOperation("getNotamsByTransactionId")
        IN  /\ outcome = NotamOperation(call.op)
            /\ raws.kind = "returned" /\ notams.kind = "returned"
            /\ Len(raws.value) = Len(notams.value)
            /\ \A i \in DOMAIN notams.value : notams.value[i].raw = raws.value[i].icaoMessage
            /\ raw.kind = "returned" /\ notam.kind = "returned"
            /\ (raw.value = Undefined) <=> (notam.value = Undefined)

====
